---- MODULE Spec2Model ----
(***************************************************************************)
(* Behaviour core of the NeuroPet firmware (Espet32): needs simulator,     *)
(* gesture recognizer, decision engine, online learner and event journal.  *)
(*                                                                         *)
(* Floating point quantities are fixed point numbers in micro units        *)
(* (One == 1000000 stands for 1.0f); times are milliseconds.               *)
(* Each component has a specification of its own (SpecNeeds, SpecCare,     *)
(* SpecButtons, SpecLoad, SpecBrain, SpecFallback, SpecLearn, SpecLogger)  *)
(* over the one set of variables; the variables of the other components    *)
(* keep their boot values there.  SpecMain is setup() and loop() of        *)
(* main.cpp with the model upload of the web server.  SpecFeatures is the  *)
(* feature builder on its own, SpecWeb the time and name requests of the   *)
(* web server, SpecLoop the iterations of loop() with their wall clock:    *)
(* button polling, the sleep trigger, the state tick and the periodic      *)
(* save; SpecSleep is the same loop() in longer runs, up to the hold that  *)
(* sends the device to deep sleep.  SpecScan takes buttons_update one      *)
(* button at a time, SpecSwap takes loop() stage by stage with a model     *)
(* upload copied array by array, and SpecUpload is the upload handler of   *)
(* the web server, callback by callback.                                   *)
(***************************************************************************)
EXTENDS Integers, Sequences, FiniteSets, TLC

VARIABLES
    now,                  \* millis(): the monotonic millisecond clock
    steps,                \* number of operations performed (bounds a run)
    g_pet_state,          \* PetState            (main.cpp)
    g_interaction_stats,  \* InteractionStats    (main.cpp)
    last_action,          \* current_action handed to the last core_state_update
    g_state,              \* ButtonState per button            (buttons.cpp)
    g_has_pending_event,  \* the single-slot register is full  (buttons.cpp)
    g_pending_event,      \* the single-slot register          (buttons.cpp)
    g_callback,           \* a callback is registered          (buttons.cpp)
    active_line,          \* the button operated in this run (the other line idles)
    cb_calls,             \* events the callback ran with in the last buttons_update
    emitted,              \* events emit_event was called with in the last buttons_update
    obs,                  \* history of the sampled raw levels, per button
    plog,                 \* history of the debounced presses, per button
    glog,                 \* history of the gestures emitted, per button
    g_weights,            \* BrainWeights                     (brain_infer.cpp)
    g_custom_model_loaded, \* a model file was loaded         (brain_infer.cpp)
    g_model_version,      \* version word of the loaded file  (brain_infer.cpp)
    g_use_fallback_brain, \* the rule ladder decides          (main.cpp)
    g_brain_output,       \* BrainOutput of the last decision (main.cpp)
    g_current_features,   \* Features of the last decision    (main.cpp)
    g_action_biases,      \* learned bias per action          (online_learn.cpp)
    g_learn_buffer,       \* g_buffer[0 .. g_buffer_count-1]  (online_learn.cpp)
    g_total_rewards,      \* rewards queued so far            (online_learn.cpp)
    g_learn_initialized,  \* g_initialized                    (online_learn.cpp)
    g_log_buffer,         \* g_buffer: the slots written so far (logger.cpp)
    g_head,               \* next write position              (logger.cpp)
    g_count,              \* records held                     (logger.cpp)
    g_log_initialized,    \* g_initialized                    (logger.cpp)
    appends,              \* journal appends since logger_init / logger_clear
    logged,               \* journal appends of the whole run
    last_ret,             \* the last call that returns a value, and the value
    ref_call,             \* one earlier brain_infer call: its inputs and output
    care,                 \* the last needs-simulator call: its name and the state before it
    learn_prefs,          \* NVS namespace "learn": the saved biases and counter
    pc,                   \* the position of main.cpp: in setup() or in loop()
    g_storage_initialized, \* g_initialized                    (storage.cpp)
    model_prefs,          \* NVS namespace "model": the ModelMeta saved
    model_file,           \* SPIFFS file /model.bin
    embedded,             \* EMBEDDED_MODEL, EMBEDDED_MODEL_SIZE (embedded_model.h)
    g_model_callback,     \* a ModelUploadCallback is registered (web_server.cpp)
    uploads,              \* model uploads received
    boots,                \* power cycles
    model_io,             \* the last model transfer: the buffer, its check, the loads
    g_boot_time_ms,       \* millis() at time_init            (time_manager.cpp)
    g_time_offset_ms,     \* offset to the time of day         (time_manager.cpp)
    g_time_set,           \* the time of day has been set      (time_manager.cpp)
    time_prefs,           \* NVS namespace "time": offset and set
    g_identity,           \* PetIdentity: the name             (pet_identity.cpp)
    pet_id_prefs,         \* NVS namespace "pet_id": the name saved
    g_last_button_ms,     \* time of the last button poll      (main.cpp)
    g_last_tick_ms,       \* time of the last state tick       (main.cpp)
    g_last_save_ms,       \* time of the last periodic save    (main.cpp)
    g_both_buttons_start_ms, \* start of the two-button hold, or 0 (main.cpp)
    g_pet_stats,          \* PetStats                          (main.cpp)
    was_starving,         \* the static flag of the starvation branch (main.cpp)
    pet_prefs,            \* NVS namespace "pet": state, interaction stats, stats
    iter,                 \* what the last loop() iteration did
    watch,                \* an observer of loop(): last interaction, ignore records, hold
    scan,                 \* buttons processed by the running buttons_update call
    load_pos,             \* arrays written by the running brain_load_weights call
    load_data,            \* the file the last brain_load_weights call copies from
    seen,                 \* the weight set the last brain_infer call read
    w_before,             \* g_weights at the last brain_load_weights call
    hist,                 \* per button: the levels digitalRead returned, with the clock
    g_uploading,          \* a model upload is under way      (web_server.cpp)
    g_upload_buffer,      \* the malloc'ed buffer or NULL, with what was copied in
    g_upload_size,        \* the X-Model-Size header, uint32  (web_server.cpp)
    g_upload_received,    \* bytes copied into the buffer     (web_server.cpp)
    g_upload_meta,        \* ModelMeta of the upload          (web_server.cpp)
    upload_io             \* the upload under way: bytes delivered, lengths handed on

needsVars == <<g_pet_state, g_interaction_stats, last_action>>
buttonVars == <<g_state, g_has_pending_event, g_pending_event, g_callback,
                active_line, cb_calls, emitted, obs, plog, glog>>
brainVars == <<g_weights, g_custom_model_loaded, g_model_version,
               g_use_fallback_brain, g_brain_output, g_current_features,
               ref_call>>
learnVars == <<g_action_biases, g_learn_buffer, g_total_rewards,
               g_learn_initialized>>
logVars == <<g_log_buffer, g_head, g_count, g_log_initialized, appends, logged>>
engineVars == <<brainVars, learnVars, logVars, last_ret>>
webVars == <<g_boot_time_ms, g_time_offset_ms, g_time_set, time_prefs, g_identity,
             pet_id_prefs>>
uploadVars == <<g_uploading, g_upload_buffer, g_upload_size, g_upload_received,
                g_upload_meta, upload_io>>
swapVars == <<load_pos, load_data, seen, w_before, hist, uploadVars>>
loopVars == <<g_last_button_ms, g_last_tick_ms, g_last_save_ms,
              g_both_buttons_start_ms, g_pet_stats, was_starving, pet_prefs, iter,
              watch, scan, swapVars>>
storeVars == <<learn_prefs, webVars, loopVars>>
bootVars == <<pc, g_storage_initialized, model_prefs, model_file, embedded,
              g_model_callback, uploads, boots, model_io>>
sysVars == <<care, storeVars, bootVars>>

vars == <<now, steps, needsVars, buttonVars, engineVars, sysVars>>

(***************************************************************************)
(* Fixed point helpers                                                     *)
(***************************************************************************)
One == 1000 * 1000

Min(a, b) == IF a < b THEN a ELSE b
Max(a, b) == IF a > b THEN a ELSE b

\* product of two non-negative micro quantities, exact to one micro unit,
\* with every intermediate value below 2^31
MulMicro(a, b) ==
    (a \div 1000) * (b \div 1000)
    + ((a % 1000) * (b \div 1000)) \div 1000
    + ((a \div 1000) * (b % 1000)) \div 1000

\* rate (micro units per second) * delta_ms / 1000.0f
PerSecond(rate, delta_ms) == (rate * delta_ms) \div 1000

(***************************************************************************)
(* core_state.cpp                                                          *)
(***************************************************************************)
ACTION_SLEEP == 0
ACTION_IDLE == 1
ACTION_PLAY == 2
ACTION_ASK_FOOD == 3
ACTION_ASK_PET == 4
ACTION_HAPPY == 5
ACTION_ANNOYED == 6
ACTION_SAD == 7
ACTION_COUNT == 8
PetActions == 0 .. (ACTION_COUNT - 1)

\* mutant: the upper limit is not enforced
clamp01_noupper(value) == IF value < 0 THEN 0 ELSE value

clamp01(value) ==
    IF value < 0 THEN 0
    ELSE IF value > One THEN One
    ELSE value

core_state_init ==
    [hunger |-> 300000, energy |-> 700000, affection_need |-> 400000,
     trust |-> 500000, stress |-> 200000]

\* StateConfig defaults, in micro units (rates: micro units per second)
core_state_config_init ==
    [hunger_rate |-> 1000, energy_decay_rate |-> 800, energy_regen_rate |-> 2000,
     affection_decay_rate |-> 500, stress_decay_rate |-> 300, trust_decay_rate |-> 10,
     feed_hunger_reduction |-> 400000, feed_stress_reduction |-> 50000,
     pet_affection_reduction |-> 350000, pet_stress_reduction |-> 100000,
     spam_penalty |-> 700000]

g_state_config == core_state_config_init

core_state_stats_init ==
    [last_interaction_ms |-> 0, feed_count_1m |-> 0, feed_count_5m |-> 0,
     pet_count_1m |-> 0, pet_count_5m |-> 0, ignore_start_ms |-> 0,
     spam_score |-> 0]

\* the three additive stress penalties, read from the already updated
\* hunger, energy and affection_need
StressChange(config, hunger, energy, affection_need, delta_ms) ==
    (0 - PerSecond(config.stress_decay_rate, delta_ms))
    + (IF hunger > 700000
         THEN (MulMicro(PerSecond(500, delta_ms), hunger - 700000) * 10) \div 3
         ELSE 0)
    + (IF energy < 200000
         THEN MulMicro(PerSecond(300, delta_ms), 200000 - energy) * 5
         ELSE 0)
    + (IF affection_need > 800000 THEN PerSecond(200, delta_ms) ELSE 0)

\* mutant: the stress is clamped after its decay and again after the penalties
core_state_update_reclamp(state, config, delta_ms, current_action) ==
    LET hunger == clamp01(state.hunger + PerSecond(config.hunger_rate, delta_ms))
        energy == IF current_action = ACTION_SLEEP
                    THEN clamp01(state.energy + PerSecond(config.energy_regen_rate, delta_ms))
                    ELSE clamp01(state.energy - PerSecond(config.energy_decay_rate, delta_ms))
        affection_need == clamp01(state.affection_need
                                  + PerSecond(config.affection_decay_rate, delta_ms))
        decayed == clamp01(state.stress - PerSecond(config.stress_decay_rate, delta_ms))
        penalties == StressChange(config, hunger, energy, affection_need, delta_ms)
                       + PerSecond(config.stress_decay_rate, delta_ms)
    IN  [hunger |-> hunger,
         energy |-> energy,
         affection_need |-> affection_need,
         stress |-> clamp01(decayed + penalties),
         trust |-> clamp01(state.trust - PerSecond(config.trust_decay_rate, delta_ms))]

core_state_update(state, config, delta_ms, current_action) ==
    LET hunger == clamp01(state.hunger + PerSecond(config.hunger_rate, delta_ms))
        energy == IF current_action = ACTION_SLEEP
                    THEN clamp01(state.energy + PerSecond(config.energy_regen_rate, delta_ms))
                    ELSE clamp01(state.energy - PerSecond(config.energy_decay_rate, delta_ms))
        affection_need == clamp01(state.affection_need
                                  + PerSecond(config.affection_decay_rate, delta_ms))
        stress_change == StressChange(config, hunger, energy, affection_need, delta_ms)
    IN  [hunger |-> hunger,
         energy |-> energy,
         affection_need |-> affection_need,
         stress |-> clamp01(state.stress + stress_change),
         trust |-> clamp01(state.trust - PerSecond(config.trust_decay_rate, delta_ms))]

\* effectiveness = 1.0f - spam_score * spam_penalty
Effectiveness(config, stats) == One - MulMicro(stats.spam_score, config.spam_penalty)

\* mutant: trust is gained whether or not the pet was hungry
core_state_feed_anytrust(state, config, stats) ==
    LET effectiveness == Effectiveness(config, stats)
        stress1 == clamp01(state.stress
                           - MulMicro(config.feed_stress_reduction, effectiveness))
    IN  [state EXCEPT
           !.hunger = clamp01(state.hunger
                              - MulMicro(config.feed_hunger_reduction, effectiveness)),
           !.trust = IF effectiveness > 500000
                       THEN clamp01(state.trust + 20000) ELSE state.trust,
           !.stress = IF state.hunger < 200000
                        THEN clamp01(stress1 + 30000) ELSE stress1]

\* core_state_feed: the new PetState
core_state_feed(state, config, stats) ==
    LET effectiveness == Effectiveness(config, stats)
        hunger_before == state.hunger
        stress1 == clamp01(state.stress
                           - MulMicro(config.feed_stress_reduction, effectiveness))
        was_hungry == hunger_before > 500000
    IN  [state EXCEPT
           !.hunger = clamp01(state.hunger
                              - MulMicro(config.feed_hunger_reduction, effectiveness)),
           !.trust = IF was_hungry /\ effectiveness > 500000
                       THEN clamp01(state.trust + 20000) ELSE state.trust,
           !.stress = IF hunger_before < 200000
                        THEN clamp01(stress1 + 30000) ELSE stress1]

\* core_state_pet: the new PetState
core_state_pet(state, config, stats) ==
    LET effectiveness == Effectiveness(config, stats)
        affection_before == state.affection_need
        stress1 == clamp01(state.stress
                           - MulMicro(config.pet_stress_reduction, effectiveness))
        needed_affection == affection_before > 500000
    IN  [state EXCEPT
           !.affection_need = clamp01(state.affection_need
                              - MulMicro(config.pet_affection_reduction, effectiveness)),
           !.trust = IF needed_affection /\ effectiveness > 500000
                       THEN clamp01(state.trust + 15000) ELSE state.trust,
           !.stress = IF affection_before < 150000
                        THEN clamp01(stress1 + 20000) ELSE stress1]

\* mutant: the raised spam score is not clamped
spam_bump_noclamp(stats) == [stats EXCEPT !.spam_score = stats.spam_score + 150000]

\* the InteractionStats after core_state_feed / core_state_pet
spam_bump(stats) == [stats EXCEPT !.spam_score = clamp01(stats.spam_score + 150000)]

\* uint32_t subtraction.  TLC's integers are 32 bit signed, so the
\* clock is kept modulo 2^30 instead of 2^32.
ClockWrap == 1024 * 1024 * 1024
Sub32(a, b) == IF a >= b THEN a - b ELSE (a - b) + ClockWrap

\* mutant: the decay is applied whatever the gap
core_state_update_stats_nocap(stats, current_ms) ==
    LET dt == Sub32(current_ms, stats.last_interaction_ms)
    IN  IF dt > 0
          THEN [stats EXCEPT !.spam_score = clamp01(stats.spam_score - 500 * Min(dt, 60000))]
          ELSE stats

core_state_update_stats(stats, current_ms) ==
    LET dt == Sub32(current_ms, stats.last_interaction_ms)
    IN  IF dt > 0 /\ dt < 60000
          THEN [stats EXCEPT !.spam_score = clamp01(stats.spam_score - 500 * dt)]
          ELSE stats

(***************************************************************************)
(* buttons.cpp                                                             *)
(***************************************************************************)
BUTTON_FEED == 0
BUTTON_PET == 1
BUTTON_COUNT == 2
Buttons == 0 .. (BUTTON_COUNT - 1)

GESTURE_NONE == 0
GESTURE_SHORT == 1
GESTURE_LONG == 2
GESTURE_DOUBLE == 3

buttons_config_init ==
    [debounce_ms |-> 50, long_press_ms |-> 500, double_press_ms |-> 300]

g_config == buttons_config_init

\* one ButtonState after buttons_init
ButtonStateInit ==
    [current_state |-> FALSE, last_raw_state |-> FALSE, last_change_ms |-> 0,
     press_start_ms |-> 0, press_count |-> 0, pending_event |-> FALSE,
     release_time_ms |-> 0]

NoEvent == [button |-> BUTTON_FEED, gesture |-> GESTURE_NONE, timestamp_ms |-> 0]

ButtonEvent(button, gesture, timestamp) ==
    [button |-> button, gesture |-> gesture, timestamp_ms |-> timestamp]

\* mutant: the debounce window is not waited for
Debounced_nowait(state, raw, last_change_ms, current_ms) == raw

\* the debounced level: the raw level once it has been stable for debounce_ms
Debounced(state, raw, last_change_ms, current_ms) ==
    IF Sub32(current_ms, last_change_ms) >= g_config.debounce_ms
      THEN raw ELSE state.current_state

\* mutant: a long press leaves the double-press tracking armed
AfterRelease_keep(s1, was_pressed, debounced, current_ms) ==
    IF was_pressed /\ ~debounced
      THEN IF Sub32(current_ms, s1.press_start_ms) >= g_config.long_press_ms
             THEN [st |-> s1, ev |-> <<GESTURE_LONG>>]
             ELSE [st |-> [s1 EXCEPT !.release_time_ms = current_ms,
                                     !.pending_event = TRUE],
                   ev |-> <<>>]
      ELSE [st |-> s1, ev |-> <<>>]

\* "Button just released": a long press is emitted at once, a short one waits
AfterRelease(s1, was_pressed, debounced, current_ms) ==
    IF was_pressed /\ ~debounced
      THEN IF Sub32(current_ms, s1.press_start_ms) >= g_config.long_press_ms
             THEN [st |-> [s1 EXCEPT !.press_count = 0, !.pending_event = FALSE],
                   ev |-> <<GESTURE_LONG>>]
             ELSE [st |-> [s1 EXCEPT !.release_time_ms = current_ms,
                                     !.pending_event = TRUE],
                   ev |-> <<>>]
      ELSE [st |-> s1, ev |-> <<>>]

\* mutant: the short press is emitted without waiting for a second press
AfterTimeout_eager(s2, current_ms) ==
    IF s2.pending_event /\ ~s2.current_state
      THEN [st |-> [s2 EXCEPT !.press_count = 0, !.pending_event = FALSE],
            ev |-> <<GESTURE_SHORT>>]
      ELSE [st |-> s2, ev |-> <<>>]

\* mutant: the short press waits until more than double_press_ms have passed
AfterTimeout_late(s2, current_ms) ==
    IF s2.pending_event /\ ~s2.current_state
      THEN IF s2.press_count >= 2
             THEN [st |-> [s2 EXCEPT !.press_count = 0, !.pending_event = FALSE],
                   ev |-> <<GESTURE_DOUBLE>>]
             ELSE IF Sub32(current_ms, s2.release_time_ms) > g_config.double_press_ms
                    THEN [st |-> [s2 EXCEPT !.press_count = 0,
                                            !.pending_event = FALSE],
                          ev |-> <<GESTURE_SHORT>>]
                    ELSE [st |-> s2, ev |-> <<>>]
      ELSE [st |-> s2, ev |-> <<>>]

\* "Check for double press timeout"
AfterTimeout(s2, current_ms) ==
    IF s2.pending_event /\ ~s2.current_state
      THEN IF s2.press_count >= 2
             THEN [st |-> [s2 EXCEPT !.press_count = 0, !.pending_event = FALSE],
                   ev |-> <<GESTURE_DOUBLE>>]
             ELSE IF Sub32(current_ms, s2.release_time_ms) >= g_config.double_press_ms
                    THEN [st |-> [s2 EXCEPT !.press_count = 0,
                                            !.pending_event = FALSE],
                          ev |-> <<GESTURE_SHORT>>]
                    ELSE [st |-> s2, ev |-> <<>>]
      ELSE [st |-> s2, ev |-> <<>>]

\* mutant: a press is counted at every call that finds the button pressed
ButtonStep_level(state, raw, current_ms) ==
    LET last_change_ms == IF raw # state.last_raw_state
                            THEN current_ms ELSE state.last_change_ms
        debounced == Debounced(state, raw, last_change_ms, current_ms)
        was_pressed == state.current_state
        pressed == ~was_pressed /\ debounced
        s1 == [state EXCEPT
                 !.last_change_ms = last_change_ms,
                 !.last_raw_state = raw,
                 !.current_state = debounced,
                 !.press_start_ms = IF pressed THEN current_ms ELSE @,
                 !.press_count = IF debounced THEN (@ + 1) % 256 ELSE @]
        r2 == AfterRelease(s1, was_pressed, debounced, current_ms)
        r3 == AfterTimeout(r2.st, current_ms)
    IN  [st |-> r3.st, ev |-> r2.ev \o r3.ev]

\* the body of the loop of buttons_update for one button: the new ButtonState
\* and the gestures emit_event is called with, in order
ButtonStep(state, raw, current_ms) ==
    LET last_change_ms == IF raw # state.last_raw_state
                            THEN current_ms ELSE state.last_change_ms
        debounced == Debounced(state, raw, last_change_ms, current_ms)
        was_pressed == state.current_state
        pressed == ~was_pressed /\ debounced
        s1 == [state EXCEPT
                 !.last_change_ms = last_change_ms,
                 !.last_raw_state = raw,
                 !.current_state = debounced,
                 !.press_start_ms = IF pressed THEN current_ms ELSE @,
                 !.press_count = IF pressed THEN (@ + 1) % 256 ELSE @]
        r2 == AfterRelease(s1, was_pressed, debounced, current_ms)
        r3 == AfterTimeout(r2.st, current_ms)
    IN  [st |-> r3.st, ev |-> r2.ev \o r3.ev]

\* the events of one buttons_update call, button 0 first
EventsOf(steps2, current_ms) ==
    [i \in 1 .. Len(steps2[BUTTON_FEED].ev) |->
        ButtonEvent(BUTTON_FEED, steps2[BUTTON_FEED].ev[i], current_ms)]
    \o
    [i \in 1 .. Len(steps2[BUTTON_PET].ev) |->
        ButtonEvent(BUTTON_PET, steps2[BUTTON_PET].ev[i], current_ms)]

(***************************************************************************)
(* brain_infer.cpp: numerics                                               *)
(***************************************************************************)
BRAIN_INPUT_SIZE == 12
BRAIN_HIDDEN_SIZE == 16
BRAIN_ACTION_COUNT == 8
BRAIN_OUTPUT_SIZE == 10

Abs(a) == IF a < 0 THEN 0 - a ELSE a

\* signed product of two micro quantities
SMul(a, b) ==
    IF a = 0 \/ b = 0 THEN 0
    ELSE IF (a < 0) = (b < 0) THEN MulMicro(Abs(a), Abs(b))
    ELSE 0 - MulMicro(Abs(a), Abs(b))

\* a / b for 0 <= a <= 1.0 and 1.0 <= b <= 20.0, in micro units: a long
\* division in three rounds, so that no intermediate leaves 32 bits
DivMicro(a, b) ==
    LET q1 == (a * 1000) \div b
        r1 == (a * 1000) % b
        q2 == (r1 * 100) \div b
        r2 == (r1 * 100) % b
        q3 == (r2 * 10) \div b
    IN  q1 * 1000 + q2 * 10 + q3

\* e^-k for whole k, in micro units
ExpNegWhole(k) ==
    IF k > 14 THEN 0
    ELSE <<1000000, 367879, 135335, 49787, 18316, 6738, 2479, 912, 335, 123,
           45, 17, 6, 2, 1>>[k + 1]

\* e^-f for 0 <= f < 1.0: the Taylor series to the tenth term
RECURSIVE ExpNegSeries(_, _, _)
ExpNegSeries(f, term, n) ==
    IF n > 10 \/ term = 0 THEN 0
    ELSE LET next == MulMicro(term, f) \div n
         IN  (IF n % 2 = 1 THEN 0 - next ELSE next) + ExpNegSeries(f, next, n + 1)

\* expf(-y) for y >= 0
ExpNeg(y) ==
    LET k == y \div One
        f == y % One
    IN  MulMicro(ExpNegWhole(k), One + ExpNegSeries(f, One, 1))

relu(x) == IF x > 0 THEN x ELSE 0

\* 1.0f / (1.0f + expf(-x))
sigmoid(x) ==
    IF x >= 0 THEN DivMicro(One, One + ExpNeg(x))
    ELSE One - DivMicro(One, One + ExpNeg(0 - x))

\* tanhf(x) = (1 - e^-2|x|) / (1 + e^-2|x|), odd
tanh_f(x) ==
    LET e == ExpNeg(2 * Abs(x))
        t == DivMicro(One - e, One + e)
    IN  IF x >= 0 THEN t ELSE 0 - t

\* f with every value computed once
Eager(f) == f @@ <<>>

\* The element of a one-element set.  Only({ e(x) : x \in {v} }) is e(v) with
\* v computed once: TLC computes a LET definition anew at each of its uses.
Only(S) == CHOOSE r \in S : TRUE

RECURSIVE SumTo(_, _)
\* f[0] + ... + f[n - 1]
SumTo(f, n) == IF n = 0 THEN 0 ELSE f[n - 1] + SumTo(f, n - 1)

RECURSIVE MaxTo(_, _)
\* the maximum of f[0] .. f[n - 1], n >= 1
MaxTo(f, n) == IF n = 1 THEN f[0] ELSE Max(f[n - 1], MaxTo(f, n - 1))

\* softmax over the first `size` entries of `input` (a function on 0 .. size-1)
softmax(input, size) ==
    Only({ Only({ Only({ [i \in 0 .. (size - 1) |-> DivMicro(e[i], sum)] :
                         sum \in {SumTo(e, size)} }) :
                  e \in {Eager([i \in 0 .. (size - 1) |->
                                   ExpNeg(max_val - input[i])])} }) :
           max_val \in {MaxTo(input, size)} })

RECURSIVE FirstArgmaxFrom(_, _, _, _)
\* the forward scan of brain_infer: a later entry wins only if strictly larger
FirstArgmaxFrom(v, i, best_action, best_prob) ==
    IF i >= BRAIN_ACTION_COUNT THEN best_action
    ELSE IF v[i] > best_prob THEN FirstArgmaxFrom(v, i + 1, i, v[i])
    ELSE FirstArgmaxFrom(v, i + 1, best_action, best_prob)

FirstArgmax(v) == FirstArgmaxFrom(v, 1, 0, v[0])

(***************************************************************************)
(* brain_infer.cpp: weights, forward pass, rule ladder                     *)
(***************************************************************************)
InputIdx == 0 .. (BRAIN_INPUT_SIZE - 1)
HiddenIdx == 0 .. (BRAIN_HIDDEN_SIZE - 1)
OutputIdx == 0 .. (BRAIN_OUTPUT_SIZE - 1)
ActionIdx == 0 .. (BRAIN_ACTION_COUNT - 1)

\* 1.0f / sqrtf(12) and 1.0f / sqrtf(16)
InputScale == 288675
HiddenScale == 250000

\* the weights brain_init installs
init_fallback_weights ==
    [w1 |-> [i \in InputIdx |-> [j \in HiddenIdx |->
                SMul(((i * 17 + j * 31) % 100) * 20000 - One, InputScale)]],
     b1 |-> [j \in HiddenIdx |-> 0],
     w2 |-> [i \in HiddenIdx |-> [j \in OutputIdx |->
                SMul(((i * 23 + j * 41) % 100) * 20000 - One, HiddenScale)]],
     b2 |-> [j \in OutputIdx |->
                IF j = ACTION_IDLE THEN 500000
                ELSE IF j = BRAIN_ACTION_COUNT + 1 THEN 0 - 500000
                ELSE 0]]

\* number of float32 values of a serialized model, and its size in bytes
WeightCount ==
    BRAIN_INPUT_SIZE * BRAIN_HIDDEN_SIZE + BRAIN_HIDDEN_SIZE
    + BRAIN_HIDDEN_SIZE * BRAIN_OUTPUT_SIZE + BRAIN_OUTPUT_SIZE
expected_size == WeightCount * 4

\* Model files an upload can carry.  A buffer is the first `size` bytes of a
\* file: data (which file) and size.
ModelFiles == {"A", "B"}

\* the version word at the start of a file
VersionOf(data) == IF data = "A" THEN 3 ELSE 4

\* fdata[idx] of a file: the idx-th float32 after the version word
FloatAt(data, idx) ==
    IF data = "A" THEN (((idx * 7) % 41) - 20) * 25000
    ELSE (((idx * 13) % 37) - 18) * 25000

\* brain_load_weights refuses the buffer (mutation: the version word is not
\* counted)
TooShort_noversion(size) == size < expected_size

\* brain_load_weights refuses the buffer
TooShort(size) == size < expected_size + 4

\* the weights brain_load_weights reads from each file, in serialization order
WeightsIn ==
    LET o1 == BRAIN_INPUT_SIZE * BRAIN_HIDDEN_SIZE
        o2 == o1 + BRAIN_HIDDEN_SIZE
        o3 == o2 + BRAIN_HIDDEN_SIZE * BRAIN_OUTPUT_SIZE
    IN  [data \in ModelFiles |->
           [w1 |-> [i \in InputIdx |-> [j \in HiddenIdx |->
                       FloatAt(data, i * BRAIN_HIDDEN_SIZE + j)]],
            b1 |-> [j \in HiddenIdx |-> FloatAt(data, o1 + j)],
            w2 |-> [i \in HiddenIdx |-> [j \in OutputIdx |->
                       FloatAt(data, o2 + i * BRAIN_OUTPUT_SIZE + j)]],
            b2 |-> [j \in OutputIdx |-> FloatAt(data, o3 + j)]]]

LoadedWeights(data) == WeightsIn[data]

\* mutant: a refused buffer marks a model as loaded
brain_load_weights_markloaded(weights, loaded, version, data, size) ==
    IF TooShort(size)
    THEN [ret |-> FALSE, weights |-> weights, loaded |-> TRUE,
          version |-> version]
    ELSE [ret |-> TRUE, weights |-> LoadedWeights(data), loaded |-> TRUE,
          version |-> VersionOf(data)]

\* brain_load_weights on the brain's three statics; ret is the return value
brain_load_weights(weights, loaded, version, data, size) ==
    IF TooShort(size)
    THEN [ret |-> FALSE, weights |-> weights, loaded |-> loaded,
          version |-> version]
    ELSE [ret |-> TRUE, weights |-> LoadedWeights(data), loaded |-> TRUE,
          version |-> VersionOf(data)]

\* the float input[BRAIN_INPUT_SIZE] brain_infer builds from a Features
InputOf(features) ==
    Only({ Eager([i \in InputIdx |-> input[i + 1]]) :
           input \in {<<features.hunger, features.energy,
                        features.affection_need, features.trust,
                        features.stress, features.dt_seconds_norm,
                        features.feed_count_5m_norm,
                        features.pet_count_5m_norm,
                        features.ignore_time_norm, features.time_of_day_sin,
                        features.time_of_day_cos,
                        features.spam_score_norm>>} })

\* hidden layer of brain_infer_raw
Hidden(weights, input) ==
    [j \in HiddenIdx |->
        relu(weights.b1[j]
             + SumTo([i \in InputIdx |-> SMul(input[i], weights.w1[i][j])],
                     BRAIN_INPUT_SIZE))]

\* output layer of brain_infer_raw before any activation: eight action logits,
\* then the valence and the arousal pre-activations
Logits(weights, input) ==
    Only({ [j \in OutputIdx |->
              weights.b2[j]
              + SumTo([i \in HiddenIdx |-> SMul(hidden[i], weights.w2[i][j])],
                      BRAIN_HIDDEN_SIZE)] :
           hidden \in {Eager(Hidden(weights, input))} })

\* brain_infer_raw: tanh and sigmoid on the two emotions, softmax on the actions
brain_infer_raw(weights, input) ==
    Only({ Only({ [j \in OutputIdx |->
                     IF j = BRAIN_ACTION_COUNT THEN tanh_f(output[j])
                     ELSE IF j = BRAIN_ACTION_COUNT + 1 THEN sigmoid(output[j])
                     ELSE probs[j]] :
                  probs \in {Eager(softmax(output, BRAIN_ACTION_COUNT))} }) :
           output \in {Eager(Logits(weights, input))} })

\* online_learn_get_bias (mutation: the rewards still waiting in the queue
\* count as learned)
online_learn_get_bias_pending(biases, action) ==
    IF action >= ACTION_COUNT THEN 0
    ELSE biases[action]
         + 100000 * Len(SelectSeq(g_learn_buffer, LAMBDA e : e.action = action))

\* online_learn_get_bias
online_learn_get_bias(biases, action) ==
    IF action >= ACTION_COUNT THEN 0 ELSE biases[action]

\* brain_infer: the learner's biases are added to what brain_infer_raw returned
brain_infer(weights, biases, features) ==
    Only({ Only({ Only({ [action_id |-> FirstArgmax(biased),
                          valence |-> raw_output[BRAIN_ACTION_COUNT],
                          arousal |-> raw_output[BRAIN_ACTION_COUNT + 1]] :
                         biased \in {Eager([i \in ActionIdx |->
                                        raw_output[i]
                                        + online_learn_get_bias(biases, i)])} }) :
                  raw_output \in {Eager(brain_infer_raw(weights, input))} }) :
           input \in {InputOf(features)} })

\* the if / else-if ladder of brain_fallback: action, valence, arousal
\* (mutation: the hunger branch is tried before the energy branch)
Ladder_foodfirst(features) ==
    IF features.hunger > 700000
    THEN <<ACTION_ASK_FOOD, 0 - 300000, 500000 + MulMicro(features.hunger, 300000)>>
    ELSE IF features.energy < 200000 THEN <<ACTION_SLEEP, 0, 100000>>
    ELSE <<ACTION_IDLE, 0, 300000>>

\* the if / else-if ladder of brain_fallback: action, valence, arousal
Ladder(features) ==
    LET hunger == features.hunger
        energy == features.energy
        affection == features.affection_need
        stress == features.stress
    IN  IF energy < 200000 THEN <<ACTION_SLEEP, 0, 100000>>
        ELSE IF hunger > 700000
        THEN <<ACTION_ASK_FOOD, 0 - 300000, 500000 + MulMicro(hunger, 300000)>>
        ELSE IF affection > 600000 THEN <<ACTION_ASK_PET, 0 - 100000, 400000>>
        ELSE IF stress > 600000 THEN <<ACTION_ANNOYED, 0 - 500000, 600000>>
        ELSE IF hunger < 300000 /\ energy > 500000 /\ affection < 300000
        THEN IF features.dt_seconds_norm > 500000
             THEN <<ACTION_SAD, 0 - 200000, 200000>>
             ELSE <<ACTION_HAPPY, 700000, 500000>>
        ELSE IF energy > 600000 /\ stress < 300000
        THEN <<ACTION_PLAY, 400000, 600000>>
        ELSE <<ACTION_IDLE, 0, 300000>>

\* brain_fallback: the ladder, the trust adjustment of valence, the clamps
brain_fallback(features) ==
    LET l == Ladder(features)
        valence == l[2] + SMul(features.trust - 500000, 300000)
    IN  [action_id |-> l[1],
         valence |-> Max(0 - One, Min(One, valence)),
         arousal |-> Max(0, Min(One, l[3]))]

(***************************************************************************)
(* online_learn.cpp                                                        *)
(***************************************************************************)
LEARNING_RATE == 100000
DECAY_RATE == 990000
MAX_BUFFER_SIZE == 16
\* the clamp range of a bias: -2.0f .. 2.0f
BiasLimit == 2 * One

ZeroBiases == [i \in 0 .. (ACTION_COUNT - 1) |-> 0]

\* mutant: a reward is queued although the queue is full
online_learn_reward_nofull(initialized, buffer, total, reward_action, features) ==
    IF ~initialized \/ reward_action >= ACTION_COUNT
    THEN [buffer |-> buffer, total |-> total]
    ELSE [buffer |-> Append(buffer, [features |-> features,
                                     action |-> reward_action,
                                     reward |-> One]),
          total |-> total + 1]

\* mutant: a dropped reward is counted as well
online_learn_reward_countall(initialized, buffer, total, reward_action, features) ==
    IF ~initialized \/ reward_action >= ACTION_COUNT
    THEN [buffer |-> buffer, total |-> total]
    ELSE IF ~(Len(buffer) < MAX_BUFFER_SIZE)
    THEN [buffer |-> buffer, total |-> total + 1]
    ELSE [buffer |-> Append(buffer, [features |-> features,
                                     action |-> reward_action,
                                     reward |-> One]),
          total |-> total + 1]

\* online_learn_reward on the queue and the counter
online_learn_reward(initialized, buffer, total, reward_action, features) ==
    IF ~initialized \/ reward_action >= ACTION_COUNT
       \/ ~(Len(buffer) < MAX_BUFFER_SIZE)
    THEN [buffer |-> buffer, total |-> total]
    ELSE [buffer |-> Append(buffer, [features |-> features,
                                     action |-> reward_action,
                                     reward |-> One]),
          total |-> total + 1]

RECURSIVE Learn_clampeach(_, _, _)
\* mutant: the biases are clamped after every experience
Learn_clampeach(biases, buffer, e) ==
    IF e > Len(buffer) THEN biases
    ELSE LET exp == buffer[e]
             gain == SMul(LEARNING_RATE, exp.reward)
         IN  Learn_clampeach(
                   [i \in 0 .. (ACTION_COUNT - 1) |->
                       Max(0 - BiasLimit, Min(BiasLimit,
                           IF i = exp.action THEN biases[i] + gain
                           ELSE biases[i] - SMul(gain, 100000)))],
                   buffer, e + 1)

RECURSIVE Learn(_, _, _)
\* the loop over the queue in online_learn_apply, from entry e on
Learn(biases, buffer, e) ==
    IF e > Len(buffer) THEN biases
    ELSE LET exp == buffer[e]
             gain == SMul(LEARNING_RATE, exp.reward)
         IN  Learn([i \in 0 .. (ACTION_COUNT - 1) |->
                       IF i = exp.action THEN biases[i] + gain
                       ELSE biases[i] - SMul(gain, 100000)],
                   buffer, e + 1)

\* online_learn_apply goes past its first line (mutation: an empty queue does
\* not stop it)
ApplyRuns_always(initialized, buffer_count) == initialized

\* online_learn_apply goes past its first line
ApplyRuns(initialized, buffer_count) == initialized /\ buffer_count # 0

\* mutant: the learned biases are not clamped
online_learn_apply_noclamp(initialized, biases, buffer) ==
    IF ~ApplyRuns(initialized, Len(buffer))
    THEN [ret |-> FALSE, biases |-> biases, buffer |-> buffer]
    ELSE [ret |-> TRUE,
          biases |-> Learn([i \in 0 .. (ACTION_COUNT - 1) |->
                               SMul(biases[i], DECAY_RATE)], buffer, 1),
          buffer |-> <<>>]

\* online_learn_apply on the biases and the queue; ret is the return value
online_learn_apply(initialized, biases, buffer) ==
    IF ~ApplyRuns(initialized, Len(buffer))
    THEN [ret |-> FALSE, biases |-> biases, buffer |-> buffer]
    ELSE LET decayed == [i \in 0 .. (ACTION_COUNT - 1) |->
                            SMul(biases[i], DECAY_RATE)]
             learned == Learn(decayed, buffer, 1)
         IN  [ret |-> TRUE,
              biases |-> [i \in 0 .. (ACTION_COUNT - 1) |->
                             Max(0 - BiasLimit, Min(BiasLimit, learned[i]))],
              buffer |-> <<>>]

(***************************************************************************)
(* logger.cpp: the journal ring                                            *)
(***************************************************************************)
LOG_MAX_EVENTS == 100

INPUT_NONE == 0
INPUT_FEED_SHORT == 1
INPUT_IGNORE == 7

\* mutant: the count keeps growing when the ring is full
logger_log_event_nocap(initialized, buffer, head, count, entry) ==
    IF ~initialized THEN [buffer |-> buffer, head |-> head, count |-> count]
    ELSE [buffer |-> [q \in (DOMAIN buffer) \cup {head} |->
                         IF q = head THEN entry ELSE buffer[q]],
          head |-> (head + 1) % LOG_MAX_EVENTS,
          count |-> count + 1]

\* logger_log_event on the ring: the entry goes to slot g_head
logger_log_event(initialized, buffer, head, count, entry) ==
    IF ~initialized THEN [buffer |-> buffer, head |-> head, count |-> count]
    ELSE [buffer |-> [q \in (DOMAIN buffer) \cup {head} |->
                         IF q = head THEN entry ELSE buffer[q]],
          head |-> (head + 1) % LOG_MAX_EVENTS,
          count |-> IF count < LOG_MAX_EVENTS THEN count + 1 ELSE count]

\* slot of the oldest record (mutation: always slot 0)
StartOf_zero(head, count) == 0

\* slot of the oldest record
StartOf(head, count) == IF count = LOG_MAX_EVENTS THEN head ELSE 0

\* logger_get_event: ret is the return value, entry the record copied out
logger_get_event(initialized, buffer, head, count, index) ==
    IF ~initialized \/ index >= count THEN [ret |-> FALSE]
    ELSE [ret |-> TRUE,
          entry |-> buffer[(StartOf(head, count) + index) % LOG_MAX_EVENTS]]

(***************************************************************************)
(* storage.cpp: the model blob in SPIFFS and its ModelMeta in NVS          *)
(***************************************************************************)
\* the buffer lengths met: empty, the weights without the version word, one
\* byte short, exact, the 32 KiB upload limit
ModelSizes == {0, expected_size, expected_size + 3, expected_size + 4, 32768}

\* storage_calc_crc32 of the first length bytes of a file: CRC-32 with the
\* reflected polynomial EDB88320, initial value and final xor FFFFFFFF, over
\* the little-endian version word and float32 weights
Crc32Table ==
    [data \in ModelFiles |->
       IF data = "A"
         THEN (0 :> "00000000") @@ (expected_size :> "F2E64917")
              @@ (expected_size + 3 :> "8EFADF14")
              @@ (expected_size + 4 :> "E48F5FA4") @@ (32768 :> "CD33621D")
         ELSE (0 :> "00000000") @@ (expected_size :> "5EF15D80")
              @@ (expected_size + 3 :> "B7313095")
              @@ (expected_size + 4 :> "900746D1") @@ (32768 :> "1072CDE6")]

storage_calc_crc32(data, length) == Crc32Table[data][length]

NoModelPrefs == [valid |-> FALSE, version |-> 0, size |-> 0, crc32 |-> "00000000"]
NoModelFile == [present |-> FALSE, data |-> "A", size |-> 0]

\* the bytes file.write puts down when it stops early
ShortWrite(size) ==
    IF size = 0 THEN 0
    ELSE CHOOSE w \in ModelSizes :
           w < size /\ \A v \in ModelSizes : v < size => v <= w

\* what the flash does to a write
WriteOutcomes == {"written", "not opened", "incomplete"}

\* mutant: the model is saved without comparing the checksums
storage_save_model_nocrc(initialized, prefs, file, model_data, size, meta, outcome) ==
    IF ~initialized
      THEN [ret |-> FALSE, checked |-> FALSE, match |-> FALSE,
            prefs |-> prefs, file |-> file]
    ELSE IF outcome = "not opened"
      THEN [ret |-> FALSE, checked |-> TRUE,
            match |-> storage_calc_crc32(model_data, size) = meta.crc32,
            prefs |-> prefs, file |-> file]
    ELSE IF outcome = "incomplete" /\ size > 0
      THEN [ret |-> FALSE, checked |-> TRUE,
            match |-> storage_calc_crc32(model_data, size) = meta.crc32,
            prefs |-> prefs,
            file |-> [present |-> TRUE, data |-> model_data,
                      size |-> ShortWrite(size)]]
    ELSE [ret |-> TRUE, checked |-> TRUE,
          match |-> storage_calc_crc32(model_data, size) = meta.crc32,
          prefs |-> [valid |-> TRUE, version |-> meta.version,
                     size |-> meta.size, crc32 |-> meta.crc32],
          file |-> [present |-> TRUE, data |-> model_data, size |-> size]]

\* storage_save_model: ret is the return value; checked and match tell
\* whether the checksums were compared and agreed
storage_save_model(initialized, prefs, file, model_data, size, meta, outcome) ==
    IF ~initialized
      THEN [ret |-> FALSE, checked |-> FALSE, match |-> FALSE,
            prefs |-> prefs, file |-> file]
    ELSE IF storage_calc_crc32(model_data, size) # meta.crc32
      THEN [ret |-> FALSE, checked |-> TRUE, match |-> FALSE,
            prefs |-> prefs, file |-> file]
    ELSE IF outcome = "not opened"
      THEN [ret |-> FALSE, checked |-> TRUE, match |-> TRUE,
            prefs |-> prefs, file |-> file]
    ELSE IF outcome = "incomplete" /\ size > 0
      THEN [ret |-> FALSE, checked |-> TRUE, match |-> TRUE,
            prefs |-> prefs,
            file |-> [present |-> TRUE, data |-> model_data,
                      size |-> ShortWrite(size)]]
    ELSE [ret |-> TRUE, checked |-> TRUE, match |-> TRUE,
          prefs |-> [valid |-> TRUE, version |-> meta.version,
                     size |-> meta.size, crc32 |-> meta.crc32],
          file |-> [present |-> TRUE, data |-> model_data, size |-> size]]

\* storage_has_valid_model
storage_has_valid_model(initialized, prefs) == initialized /\ prefs.valid

\* mutant: the model is read back without comparing the checksums
storage_load_model_nocrc(initialized, prefs, file, max_size) ==
    IF ~initialized \/ ~prefs.valid \/ prefs.size > max_size
       \/ ~file.present \/ file.size < prefs.size
      THEN [ret |-> FALSE, checked |-> FALSE, match |-> FALSE,
            data |-> file.data, size |-> 0]
    ELSE [ret |-> TRUE, checked |-> TRUE,
          match |-> storage_calc_crc32(file.data, prefs.size) = prefs.crc32,
          data |-> file.data, size |-> prefs.size]

\* storage_load_model: ret is the return value, data and size the buffer
\* filled and *actual_size
storage_load_model(initialized, prefs, file, max_size) ==
    IF ~initialized \/ ~prefs.valid \/ prefs.size > max_size
       \/ ~file.present \/ file.size < prefs.size
      THEN [ret |-> FALSE, checked |-> FALSE, match |-> FALSE,
            data |-> file.data, size |-> 0]
    ELSE IF storage_calc_crc32(file.data, prefs.size) # prefs.crc32
      THEN [ret |-> FALSE, checked |-> TRUE, match |-> FALSE,
            data |-> file.data, size |-> prefs.size]
    ELSE [ret |-> TRUE, checked |-> TRUE, match |-> TRUE,
          data |-> file.data, size |-> prefs.size]

(***************************************************************************)
(* Boot values of the decision engine, the learner and the journal         *)
(***************************************************************************)
ZeroFeatures ==
    [hunger |-> 0, energy |-> 0, affection_need |-> 0, trust |-> 0,
     stress |-> 0, dt_seconds_norm |-> 0, feed_count_5m_norm |-> 0,
     pet_count_5m_norm |-> 0, ignore_time_norm |-> 0, time_of_day_sin |-> 0,
     time_of_day_cos |-> 0, spam_score_norm |-> 0]

\* the BrainOutput setup() installs
BootOutput == [action_id |-> ACTION_IDLE, valence |-> 0, arousal |-> 300000]

NoRet == [op |-> "none", ret |-> FALSE]
NoCall == [valid |-> FALSE]

\* brain_init, with no model file found by setup()
BootBrain ==
    /\ g_weights = init_fallback_weights
    /\ g_custom_model_loaded = FALSE
    /\ g_model_version = 0
    /\ g_use_fallback_brain = TRUE
    /\ g_brain_output = BootOutput
    /\ g_current_features = ZeroFeatures
    /\ ref_call = NoCall

\* online_learn_init, with nothing saved
BootLearn ==
    /\ g_action_biases = ZeroBiases
    /\ g_learn_buffer = <<>>
    /\ g_total_rewards = 0
    /\ g_learn_initialized = TRUE

\* logger_init
BootLogger ==
    /\ g_log_buffer = <<>>
    /\ g_head = 0
    /\ g_count = 0
    /\ g_log_initialized = TRUE
    /\ appends = 0
    /\ logged = 0

BootEngine == BootBrain /\ BootLearn /\ BootLogger /\ last_ret = NoRet

NoCare == [op |-> "none", state |-> core_state_init,
           stats |-> core_state_stats_init, run |-> 0]

\* NVS namespace "learn" with nothing saved
NoLearnPrefs == [saved |-> FALSE, biases |-> ZeroBiases, count |-> 0]

\* no EMBEDDED_MODEL in the build
NoEmbedded == [data |-> "A", size |-> 0]

NoModelIo == [path |-> "none", data |-> "A", size |-> 0, checked |-> FALSE,
              match |-> FALSE, result |-> FALSE, loads |-> <<>>]

(***************************************************************************)
(* time_manager.cpp, pet_identity.cpp and their web handlers               *)
(***************************************************************************)
PET_NAME_MAX_LEN == 24
DayMs == 86400000

\* NVS namespace "time" with nothing saved (getUInt and getBool defaults)
NoTimePrefs == [offset |-> 0, set |-> FALSE]

\* "Pixel", the first of DEFAULT_NAMES, as character codes
DefaultName == <<80, 105, 120, 101, 108>>

\* a name of n characters
NameOf(n) == [i \in 1 .. n |-> 97 + (i % 26)]

\* time_set(hour, minute) at millis() = current_ms, then time_save(), whose
\* Preferences::begin gives opened
time_set(boot_time_ms, hour, minute, current_ms, opened, prefs) ==
    LET target_ms == hour * 3600000 + minute * 60000
        device_time_ms == Sub32(current_ms, boot_time_ms) % DayMs
        offset_ms == IF target_ms >= device_time_ms
                       THEN target_ms - device_time_ms
                       ELSE (DayMs - device_time_ms) + target_ms
    IN  [offset_ms |-> offset_ms, set |-> TRUE,
         prefs |-> IF opened THEN [offset |-> offset_ms, set |-> TRUE]
                   ELSE prefs]

\* the checks of handle_api_time_post (mutant: an hour of 24 and a minute of
\* 60 pass)
TimeArgsValid_loose(hour, minute) ==
    ~(hour < 0 \/ hour > 24 \/ minute < 0 \/ minute > 60)

\* the checks of handle_api_time_post on the integers read from the body
TimeArgsValid(hour, minute) ==
    ~(hour < 0 \/ hour > 23 \/ minute < 0 \/ minute > 59)

\* the checks of handle_api_pet_name_post on the name read from the body
NameValid(name) == ~(Len(name) = 0 \/ Len(name) > PET_NAME_MAX_LEN)

\* pet_identity_set_name(name), Preferences::begin giving opened
pet_identity_set_name(identity, prefs, name, opened) ==
    IF Len(name) = 0
      THEN [ret |-> FALSE, identity |-> identity, prefs |-> prefs]
      ELSE LET kept == SubSeq(name, 1, Min(Len(name), PET_NAME_MAX_LEN))
           IN  [ret |-> opened,
                identity |-> [identity EXCEPT !.name = kept],
                prefs |-> IF opened THEN kept ELSE prefs]

\* time_init and pet_identity_init on a device with nothing saved
BootWeb ==
    /\ g_boot_time_ms = 0
    /\ g_time_offset_ms = 0
    /\ g_time_set = FALSE
    /\ time_prefs = NoTimePrefs
    /\ g_identity = [name |-> DefaultName]
    /\ pet_id_prefs = <<>>

\* PetStats of a first boot: the memset of setup(), boot_count = 1
FirstPetStats ==
    [total_feeds |-> 0, total_pets |-> 0, total_playtime_sec |-> 0,
     max_trust_reached |-> 0, times_starved |-> 0, boot_count |-> 1,
     last_save_timestamp |-> 0]

\* NVS namespace "pet" with nothing saved
NoPetPrefs ==
    [state |-> [saved |-> FALSE, value |-> core_state_init],
     interaction |-> [saved |-> FALSE, value |-> core_state_stats_init],
     stats |-> [saved |-> FALSE, value |-> FirstPetStats]]

\* a loop() iteration that did nothing
NoIter ==
    [t |-> 0, polled |-> FALSE, both |-> FALSE, events |-> <<>>, skew |-> 0,
     sleep |-> FALSE, tick |-> FALSE, prev_tick_ms |-> 0,
     pet0 |-> core_state_init, stats0 |-> core_state_stats_init,
     ignored |-> FALSE, save |-> FALSE, prev_save_ms |-> 0, opened |-> TRUE,
     calls |-> <<>>]

\* nothing observed yet: no interaction, no ignore record, no hold
NoWatch ==
    [touched |-> FALSE, touch_ms |-> 0, ignores |-> 0, hold_ms |-> -1,
     changes |-> 0]

\* the statics of main.cpp at the first loop() of a first boot
\* the four arrays of BrainWeights, in the order brain_load_weights fills them
LoadArrays == <<"w1", "b1", "w2", "b2">>

\* load_pos when no brain_load_weights call is running
LoadIdle == Len(LoadArrays) + 1

\* g_upload_buffer == nullptr
NullBuffer == [null |-> TRUE, cap |-> 0, filled |-> 0, intact |-> TRUE]

NoUploadIo == [data |-> "A", sent |-> 0, handed |-> <<>>]

\* the statics of web_server.cpp, lines 25-31
BootUpload ==
    /\ g_uploading = FALSE
    /\ g_upload_buffer = NullBuffer
    /\ g_upload_size = 0
    /\ g_upload_received = 0
    /\ g_upload_meta = [version |-> 0, size |-> 0, crc32 |-> "00000000"]
    /\ upload_io = NoUploadIo

\* no brain_load_weights call yet, no brain_infer call yet
BootSwap ==
    /\ load_pos = LoadIdle
    /\ load_data = "A"
    /\ seen = [read |-> FALSE, weights |-> init_fallback_weights]
    /\ w_before = init_fallback_weights
    /\ hist = [b \in Buttons |-> <<>>]
    /\ BootUpload

\* scan when no buttons_update call is running and none waits to be drained
ScanIdle == BUTTON_COUNT + 1

BootLoop ==
    /\ g_last_button_ms = 0
    /\ g_last_tick_ms = 0
    /\ g_last_save_ms = 0
    /\ g_both_buttons_start_ms = 0
    /\ g_pet_stats = FirstPetStats
    /\ was_starving = FALSE
    /\ pet_prefs = NoPetPrefs
    /\ iter = NoIter
    /\ watch = NoWatch
    /\ scan = ScanIdle
    /\ BootSwap

\* setup() done on a device without a stored or an embedded model
BootMain ==
    /\ BootWeb
    /\ BootLoop
    /\ pc = "loop"
    /\ g_storage_initialized = TRUE
    /\ model_prefs = NoModelPrefs
    /\ model_file = NoModelFile
    /\ embedded = NoEmbedded
    /\ g_model_callback = TRUE
    /\ uploads = 0
    /\ boots = 0
    /\ model_io = NoModelIo

BootSys ==
    /\ care = NoCare
    /\ learn_prefs = NoLearnPrefs
    /\ BootMain

(***************************************************************************)
(* Decision engine and online learner: the operations as steps             *)
(***************************************************************************)
MaxRewards == 1

\* sizes of the uploaded buffers: empty, one byte short, exact, the 32 KiB
\* upload limit
BufferSizes == {0, expected_size + 3, expected_size + 4, 32768}

\* feature vectors the ticks see
TickFeatures ==
    { [ZeroFeatures EXCEPT !.hunger = 800000, !.energy = 500000,
                           !.affection_need = 400000, !.trust = 500000,
                           !.stress = 200000, !.dt_seconds_norm = 100000,
                           !.time_of_day_cos = One],
      [ZeroFeatures EXCEPT !.hunger = 200000, !.energy = 900000,
                           !.affection_need = 100000, !.trust = 700000,
                           !.stress = 100000, !.time_of_day_sin = One,
                           !.spam_score_norm = 300000] }

\* actions main.cpp rewards
RewardActions == {ACTION_ASK_FOOD, ACTION_HAPPY}

\* on_model_uploaded(data, size, meta, success)
OnModelUploaded(data, size, success) ==
    /\ IF success
       THEN LET r == brain_load_weights(g_weights, g_custom_model_loaded,
                                        g_model_version, data, size)
            IN  /\ g_weights' = r.weights
                /\ g_custom_model_loaded' = r.loaded
                /\ g_model_version' = r.version
                /\ g_use_fallback_brain' = IF r.ret THEN FALSE
                                           ELSE g_use_fallback_brain
                /\ last_ret' = [op |-> "brain_load_weights", ret |-> r.ret,
                                size |-> size]
       ELSE /\ UNCHANGED <<g_weights, g_custom_model_loaded, g_model_version,
                           g_use_fallback_brain>>
            /\ last_ret' = NoRet
    /\ UNCHANGED <<now, steps, needsVars, buttonVars, sysVars, g_brain_output,
                   g_current_features, ref_call, learnVars, logVars>>

\* an upload the storage accepted, or one it refused
ModelUpload ==
    \/ \E data \in ModelFiles, size \in BufferSizes :
         OnModelUploaded(data, size, TRUE)
    \/ \E data \in ModelFiles : OnModelUploaded(data, expected_size + 4, FALSE)

\* the inputs and the output of a brain_infer call
CallRecord(features, out) ==
    [valid |-> TRUE, weights |-> g_weights, features |-> features,
     biases |-> g_action_biases, rewards |-> g_total_rewards, out |-> out]

\* loop(): build the features and run the learned path
BrainInfer ==
    /\ ~g_use_fallback_brain
    /\ \E features \in TickFeatures :
         \E out \in {brain_infer(g_weights, g_action_biases, features)} :
             /\ g_current_features' = features
             /\ g_brain_output' = out
             /\ ref_call' \in {ref_call, CallRecord(features, out)}
    /\ last_ret' = [op |-> "brain_infer", ret |-> TRUE]
    /\ UNCHANGED <<now, steps, needsVars, buttonVars, sysVars, g_weights,
                   g_custom_model_loaded, g_model_version,
                   g_use_fallback_brain, learnVars, logVars>>

\* loop(): build the features and run the rule ladder
TickFallback ==
    /\ g_use_fallback_brain
    /\ \E features \in TickFeatures :
         /\ g_current_features' = features
         /\ g_brain_output' = brain_fallback(features)
    /\ last_ret' = [op |-> "brain_fallback", ret |-> TRUE]
    /\ UNCHANGED <<now, steps, needsVars, buttonVars, sysVars, g_weights,
                   g_custom_model_loaded, g_model_version,
                   g_use_fallback_brain, ref_call, learnVars, logVars>>

\* online_learn_reward(reward_action, &g_current_features)
OnlineLearnReward ==
    /\ g_total_rewards < MaxRewards
    /\ \E reward_action \in RewardActions :
         LET r == online_learn_reward(g_learn_initialized, g_learn_buffer,
                                      g_total_rewards, reward_action,
                                      g_current_features)
         IN  /\ g_learn_buffer' = r.buffer
             /\ g_total_rewards' = r.total
    /\ last_ret' = NoRet
    /\ UNCHANGED <<now, steps, needsVars, buttonVars, sysVars, brainVars,
                   g_action_biases, g_learn_initialized, logVars>>

\* online_learn_apply()
OnlineLearnApply ==
    /\ LET r == online_learn_apply(g_learn_initialized, g_action_biases,
                                   g_learn_buffer)
       IN  /\ g_action_biases' = r.biases
           /\ g_learn_buffer' = r.buffer
           /\ last_ret' = [op |-> "online_learn_apply", ret |-> r.ret]
    /\ UNCHANGED <<now, steps, needsVars, buttonVars, sysVars, brainVars,
                   g_total_rewards, g_learn_initialized, logVars>>

\* online_learn_reward calls of one run, and the arguments they pass: two
\* rewarded actions, and two values that name no action
MaxRewardCalls == 4
RewardCallActions == {ACTION_ASK_FOOD, ACTION_HAPPY, ACTION_COUNT, 255}

\* online_learn_reward(reward_action, &g_current_features), any argument
RewardCall ==
    /\ steps < MaxRewardCalls
    /\ \E reward_action \in RewardCallActions :
         LET r == online_learn_reward(g_learn_initialized, g_learn_buffer,
                                      g_total_rewards, reward_action,
                                      g_current_features)
         IN  /\ g_learn_buffer' = r.buffer
             /\ g_total_rewards' = r.total
             /\ last_ret' = [op |-> "online_learn_reward", ret |-> FALSE,
                             action |-> reward_action]
    /\ steps' = steps + 1
    /\ UNCHANGED <<now, needsVars, buttonVars, sysVars, brainVars,
                   g_action_biases, g_learn_initialized, logVars>>

\* online_learn_save(): the biases and the counter go to NVS, unless the
\* namespace cannot be opened
OnlineLearnSave ==
    /\ \E opened \in BOOLEAN :
         learn_prefs' = IF g_learn_initialized /\ opened
                          THEN [saved |-> TRUE, biases |-> g_action_biases,
                                count |-> g_total_rewards]
                          ELSE learn_prefs
    /\ last_ret' = [op |-> "online_learn_save", ret |-> FALSE]
    /\ UNCHANGED <<now, steps, needsVars, buttonVars, care, bootVars, brainVars,
                   learnVars, logVars, webVars, loopVars>>

\* the biases after fourteen online_learn_apply calls on sixteen rewards of
\* ACTION_HAPPY each, as online_learn_save stored them
SaturatedPrefs ==
    [saved |-> TRUE,
     biases |-> [i \in 0 .. (ACTION_COUNT - 1) |->
                   IF i = ACTION_HAPPY THEN BiasLimit ELSE 0 - BiasLimit],
     count |-> 14 * MAX_BUFFER_SIZE]

\* the queue after n rewards of reward_action on the boot features
Queued(n, reward_action) ==
    [e \in 1 .. n |-> [features |-> ZeroFeatures, action |-> reward_action,
                       reward |-> One]]

\* the rule ladder run on the features of the state
BrainFallback ==
    /\ g_use_fallback_brain
    /\ g_brain_output' = brain_fallback(g_current_features)
    /\ last_ret' = [op |-> "brain_fallback", ret |-> TRUE]
    /\ UNCHANGED <<now, steps, needsVars, buttonVars, sysVars, g_weights,
                   g_custom_model_loaded, g_model_version,
                   g_use_fallback_brain, g_current_features, ref_call,
                   learnVars, logVars>>

\* feature values on both sides of every threshold of the ladder
FallbackGrid ==
    { [ZeroFeatures EXCEPT !.hunger = h, !.energy = e, !.affection_need = a,
                           !.stress = s, !.dt_seconds_norm = d, !.trust = t] :
        h \in {200000, 300000, 700000, 900000},
        e \in {100000, 200000, 500000, 600000, 900000},
        a \in {200000, 300000, 600000, 800000},
        s \in {200000, 300000, 600000, 800000},
        d \in {500000, 600000},
        t \in {0, One} }

(***************************************************************************)
(* main.cpp: setup(), loop(), the button and upload handlers               *)
(***************************************************************************)
\* a duration in ms as a fraction of a ceiling in seconds, at most 1.0:
\* fminf(1.0f, (ms / 1000.0f) / ceiling)
TimeNorm(ms, ceiling) ==
    IF ms >= ceiling * 1000 THEN One ELSE (ms * 1000) \div ceiling

\* time_get_features at the times of day tried: 06:00 and 12:00
TimesOfDay == { [sin |-> One, cos |-> 0], [sin |-> 0, cos |-> 0 - One] }

\* fminf(1.0f, count / 10.0f) of a uint16_t count
CountNorm(count) == IF count >= 10 THEN One ELSE count * 100000

\* mutant: the elapsed times are differences that stop at 0 instead of
\* wrapping with the 32-bit clock
logger_build_features_nowrap(state, stats, current_ms, tod) ==
    [hunger |-> state.hunger,
     energy |-> state.energy,
     affection_need |-> state.affection_need,
     trust |-> state.trust,
     stress |-> state.stress,
     dt_seconds_norm |-> TimeNorm(Max(0, current_ms - stats.last_interaction_ms), 600),
     feed_count_5m_norm |-> CountNorm(stats.feed_count_5m),
     pet_count_5m_norm |-> CountNorm(stats.pet_count_5m),
     ignore_time_norm |-> IF stats.ignore_start_ms > 0
                            THEN TimeNorm(Max(0, current_ms - stats.ignore_start_ms), 300)
                            ELSE 0,
     time_of_day_sin |-> tod.sin,
     time_of_day_cos |-> tod.cos,
     spam_score_norm |-> stats.spam_score]

\* logger_build_features: the Features of a PetState and InteractionStats
logger_build_features(state, stats, current_ms, tod) ==
    [hunger |-> state.hunger,
     energy |-> state.energy,
     affection_need |-> state.affection_need,
     trust |-> state.trust,
     stress |-> state.stress,
     dt_seconds_norm |-> TimeNorm(Sub32(current_ms, stats.last_interaction_ms), 600),
     feed_count_5m_norm |-> CountNorm(stats.feed_count_5m),
     pet_count_5m_norm |-> CountNorm(stats.pet_count_5m),
     ignore_time_norm |-> IF stats.ignore_start_ms > 0
                            THEN TimeNorm(Sub32(current_ms, stats.ignore_start_ms), 300)
                            ELSE 0,
     time_of_day_sin |-> tod.sin,
     time_of_day_cos |-> tod.cos,
     spam_score_norm |-> stats.spam_score]

\* the InputEventType on_button_event's switch gives a gesture
InputTypeOf(event) ==
    IF event.gesture = GESTURE_NONE THEN INPUT_NONE
    ELSE INPUT_FEED_SHORT + 3 * event.button + (event.gesture - GESTURE_SHORT)

\* the part of the state on_button_event works on
MainState ==
    [pet |-> g_pet_state, stats |-> g_interaction_stats,
     features |-> g_current_features,
     log_buffer |-> g_log_buffer, head |-> g_head, count |-> g_count,
     appends |-> appends, logged |-> logged,
     learn_buffer |-> g_learn_buffer, total |-> g_total_rewards]

\* mutant: the entry carries the decision setup() installed
EntryOf_boot(input_type, features, output, state, t, append_no) ==
    [timestamp |-> t \div 1000,
     input_event |-> input_type,
     features |-> features,
     model_action |-> ACTION_IDLE,
     model_valence |-> 0,
     model_arousal |-> 300000,
     state_after |-> state,
     append_no |-> append_no]

\* a LogEntry written at time t
EntryOf(input_type, features, output, state, t, append_no) ==
    [timestamp |-> t \div 1000,
     input_event |-> input_type,
     features |-> features,
     model_action |-> output.action_id,
     model_valence |-> output.valence,
     model_arousal |-> output.arousal,
     state_after |-> state,
     append_no |-> append_no]

\* on_button_event(event) at millis() = t, with brain output `output`
on_button_event(m, event, output, t, tod) ==
    LET input_type == InputTypeOf(event)
        calls == IF event.gesture = GESTURE_SHORT THEN 1
                 ELSE IF event.gesture = GESTURE_LONG THEN 2 ELSE 0
        pet1 == IF calls = 0 THEN m.pet
                ELSE IF event.button = BUTTON_FEED
                  THEN core_state_feed(m.pet, g_state_config, m.stats)
                  ELSE core_state_pet(m.pet, g_state_config, m.stats)
        stats1 == IF calls = 0 THEN m.stats ELSE spam_bump(m.stats)
        pet2 == IF calls < 2 THEN pet1
                ELSE IF event.button = BUTTON_FEED
                  THEN core_state_feed(pet1, g_state_config, stats1)
                  ELSE core_state_pet(pet1, g_state_config, stats1)
        stats2 == IF calls < 2 THEN stats1 ELSE spam_bump(stats1)
        stats3 == [stats2 EXCEPT !.last_interaction_ms = t, !.ignore_start_ms = 0]
        features == logger_build_features(pet2, stats3, t, tod)
        log == logger_log_event(g_log_initialized, m.log_buffer, m.head, m.count,
                                EntryOf(input_type, features, output, pet2, t,
                                        m.appends + 1))
        asked == IF event.button = BUTTON_FEED THEN ACTION_ASK_FOOD
                 ELSE ACTION_ASK_PET
        r1 == IF output.action_id = asked
                THEN online_learn_reward(g_learn_initialized, m.learn_buffer,
                                         m.total, asked, features)
                ELSE [buffer |-> m.learn_buffer, total |-> m.total]
        r2 == online_learn_reward(g_learn_initialized, r1.buffer, r1.total,
                                  ACTION_HAPPY, features)
    IN  IF input_type = INPUT_NONE THEN m
        ELSE [pet |-> pet2, stats |-> stats3, features |-> features,
              log_buffer |-> Eager(log.buffer), head |-> log.head,
              count |-> log.count,
              appends |-> m.appends + 1, logged |-> m.logged + 1,
              learn_buffer |-> r2.buffer, total |-> r2.total]

RECURSIVE Gestures(_, _, _, _, _, _)
\* n gestures of the same kind, one every second, the first at time t: the
\* first half of them, then the rest
Gestures(m, event, output, t, tod, n) ==
    IF n = 0 THEN m
    ELSE IF n = 1 THEN on_button_event(m, event, output, t, tod)
    ELSE Only({ Gestures(half, event, output, t + 1000 * (n \div 2), tod,
                         n - (n \div 2)) :
                half \in {Gestures(m, event, output, t, tod, n \div 2)} })

\* state ticks, gesture runs, uploads and power cycles of one run
MaxLoopSteps == 2

\* gestures the owner makes at a stretch: one, or a hundred and one (the
\* journal ring wraps and the experience queue overflows)
OwnerGestures ==
    { [event |-> [button |-> BUTTON_FEED, gesture |-> GESTURE_SHORT], n |-> 1],
      [event |-> [button |-> BUTTON_PET, gesture |-> GESTURE_LONG],
       n |-> LOG_MAX_EVENTS + 1] }

\* time between two state ticks
TickDeltas == {2000}

\* what SPIFFS and NVS hold at power on: nothing; a model saved whole; the
\* ModelMeta of one model with the bytes of another; a model one byte short
StoredModels ==
    { [prefs |-> NoModelPrefs, file |-> NoModelFile],
      [prefs |-> [valid |-> TRUE, version |-> VersionOf("A"),
                  size |-> expected_size + 4,
                  crc32 |-> storage_calc_crc32("A", expected_size + 4)],
       file |-> [present |-> TRUE, data |-> "A", size |-> expected_size + 4]],
      [prefs |-> [valid |-> TRUE, version |-> VersionOf("A"),
                  size |-> expected_size + 4,
                  crc32 |-> storage_calc_crc32("A", expected_size + 4)],
       file |-> [present |-> TRUE, data |-> "B", size |-> expected_size + 4]],
      [prefs |-> [valid |-> TRUE, version |-> VersionOf("A"),
                  size |-> expected_size + 3,
                  crc32 |-> storage_calc_crc32("A", expected_size + 3)],
       file |-> [present |-> TRUE, data |-> "A", size |-> expected_size + 3]] }

\* EMBEDDED_MODEL of the build: none, or a model of the exact size
EmbeddedModels == { NoEmbedded, [data |-> "B", size |-> expected_size + 4] }

\* the devices switched on: whether storage_init succeeds, what the flash
\* holds, what the build embeds
Devices ==
    { dev \in [mounted : BOOLEAN, stored : StoredModels,
               embedded : EmbeddedModels] :
        \/ dev.mounted /\ dev.embedded = NoEmbedded
        \/ dev.mounted /\ dev.embedded # NoEmbedded
               /\ dev.stored.file.size = expected_size + 3
        \/ ~dev.mounted /\ dev.embedded # NoEmbedded
               /\ dev.stored.file.present /\ dev.stored.file.data = "B" }

\* the uploads tried: the buffer received and the X-Model-CRC header
Uploads ==
    { [data |-> "A", size |-> expected_size + 4,
       crc32 |-> storage_calc_crc32("A", expected_size + 4)],
      [data |-> "B", size |-> expected_size + 4,
       crc32 |-> storage_calc_crc32("B", expected_size + 4)],
      [data |-> "A", size |-> expected_size + 3,
       crc32 |-> storage_calc_crc32("A", expected_size + 3)],
      [data |-> "A", size |-> expected_size + 4,
       crc32 |-> storage_calc_crc32("B", expected_size + 4)] }

\* a brain_load_weights call as model_io records it
LoadCall(path, data, size, ret) ==
    [path |-> path, data |-> data, size |-> size, ret |-> ret]

\* setup(), lines 225-238: the stored model is read back and loaded
SetupRestore ==
    /\ pc = "restore"
    /\ \E allocated \in BOOLEAN :
         LET tried == allocated /\ storage_has_valid_model(g_storage_initialized,
                                                          model_prefs)
             ld == storage_load_model(g_storage_initialized, model_prefs,
                                      model_file, 32768)
             called == tried /\ ld.ret
             r == brain_load_weights(g_weights, g_custom_model_loaded,
                                     g_model_version, ld.data, ld.size)
         IN  /\ g_weights' = IF called THEN r.weights ELSE g_weights
             /\ g_custom_model_loaded' = IF called THEN r.loaded
                                         ELSE g_custom_model_loaded
             /\ g_model_version' = IF called THEN r.version ELSE g_model_version
             /\ g_use_fallback_brain' = IF called /\ r.ret THEN FALSE
                                        ELSE g_use_fallback_brain
             /\ model_io' = IF tried
                              THEN [path |-> "restore", data |-> ld.data,
                                    size |-> ld.size, checked |-> ld.checked,
                                    match |-> ld.match, result |-> ld.ret,
                                    loads |-> IF called
                                                THEN <<LoadCall("restore", ld.data,
                                                                ld.size, r.ret)>>
                                                ELSE <<>>]
                              ELSE NoModelIo
             /\ last_ret' = [op |-> "storage_load_model", ret |-> called]
    /\ pc' = "embedded"
    /\ UNCHANGED <<now, steps, needsVars, buttonVars, care, storeVars,
                   g_storage_initialized, model_prefs, model_file, embedded,
                   g_model_callback, uploads, boots, g_brain_output,
                   g_current_features, ref_call, learnVars, logVars>>

\* setup(), lines 240-271: the embedded model, logger_init, the web server
\* (which may fail to start), the initial BrainOutput
SetupFinish ==
    /\ pc = "embedded"
    /\ LET called == g_use_fallback_brain /\ embedded.size > 0
           r == brain_load_weights(g_weights, g_custom_model_loaded,
                                   g_model_version, embedded.data, embedded.size)
       IN  /\ g_weights' = IF called THEN r.weights ELSE g_weights
           /\ g_custom_model_loaded' = IF called THEN r.loaded
                                       ELSE g_custom_model_loaded
           /\ g_model_version' = IF called THEN r.version ELSE g_model_version
           /\ g_use_fallback_brain' = IF called /\ r.ret THEN FALSE
                                      ELSE g_use_fallback_brain
           /\ model_io' = IF called
                            THEN [model_io EXCEPT
                                    !.loads = Append(@, LoadCall("embedded",
                                                embedded.data, embedded.size,
                                                r.ret))]
                            ELSE model_io
           /\ last_ret' = [op |-> "setup", ret |-> called /\ r.ret]
    /\ g_log_buffer' = <<>>
    /\ g_head' = 0
    /\ g_count' = 0
    /\ g_log_initialized' = TRUE
    /\ appends' = 0
    /\ g_model_callback' \in BOOLEAN
    /\ g_brain_output' = BootOutput
    /\ pc' = "loop"
    /\ UNCHANGED <<now, steps, needsVars, buttonVars, care, storeVars,
                   g_storage_initialized, model_prefs, model_file, embedded,
                   uploads, boots, g_current_features, ref_call, learnVars,
                   logged>>

\* handle_api_model_post at UPLOAD_FILE_END, with on_model_uploaded when a
\* callback is registered; the buffer may not have been allocated
HandleApiModelPost ==
    /\ pc = "loop"
    /\ steps < MaxLoopSteps
    /\ \E req \in Uploads, outcome \in WriteOutcomes, allocated \in BOOLEAN :
         LET meta == [version |-> VersionOf(req.data), size |-> req.size,
                      crc32 |-> req.crc32]
             sv == storage_save_model(g_storage_initialized, model_prefs,
                                      model_file, req.data, req.size, meta,
                                      outcome)
             success == allocated /\ sv.ret
             called == success /\ g_model_callback
             r == brain_load_weights(g_weights, g_custom_model_loaded,
                                     g_model_version, req.data, req.size)
         IN  /\ model_prefs' = IF allocated THEN sv.prefs ELSE model_prefs
             /\ model_file' = IF allocated THEN sv.file ELSE model_file
             /\ g_weights' = IF called THEN r.weights ELSE g_weights
             /\ g_custom_model_loaded' = IF called THEN r.loaded
                                         ELSE g_custom_model_loaded
             /\ g_model_version' = IF called THEN r.version ELSE g_model_version
             /\ g_use_fallback_brain' = IF called /\ r.ret THEN FALSE
                                        ELSE g_use_fallback_brain
             /\ model_io' = [path |-> "upload", data |-> req.data,
                             size |-> req.size,
                             checked |-> allocated /\ sv.checked,
                             match |-> allocated /\ sv.match,
                             result |-> success,
                             loads |-> IF called
                                         THEN <<LoadCall("upload", req.data,
                                                         req.size, r.ret)>>
                                         ELSE <<>>]
             /\ last_ret' = [op |-> "handle_api_model_post", ret |-> success]
    /\ uploads' = uploads + 1
    /\ steps' = steps + 1
    /\ UNCHANGED <<now, needsVars, buttonVars, care, storeVars, pc,
                   g_storage_initialized, embedded, g_model_callback, boots,
                   g_brain_output, g_current_features, ref_call, learnVars,
                   logVars>>

\* mutant: the state tick always runs the learned path
TickOutput_learned(features) ==
    brain_infer(g_weights, g_action_biases, features)

\* the decision of a state tick, lines 352-356
TickOutput(features) ==
    IF g_use_fallback_brain THEN brain_fallback(features)
    ELSE brain_infer(g_weights, g_action_biases, features)

\* loop(), lines 331-351: the needs, the statistics, the ignore record and
\* the features of a state tick at loop()'s now = t, delta after the last
\* tick, on the state m
\* mutant: the needs update runs on a decision inferred in this tick
StateTick_fresh(m, output, t, delta, tod) ==
    LET pet == core_state_update(m.pet, g_state_config, delta,
                                 TickOutput(logger_build_features(m.pet, m.stats, t, tod)).action_id)
        stats1 == core_state_update_stats(m.stats, t)
        ignored == /\ stats1.last_interaction_ms > 0
                   /\ Sub32(t, stats1.last_interaction_ms) > 300000
                   /\ stats1.ignore_start_ms = 0
        stats2 == IF ignored THEN [stats1 EXCEPT !.ignore_start_ms = t]
                  ELSE stats1
        features == logger_build_features(pet, stats2, t, tod)
        log == IF ignored
                 THEN logger_log_event(g_log_initialized, m.log_buffer,
                                       m.head, m.count,
                                       EntryOf(INPUT_IGNORE, features,
                                               output, pet, t, m.appends + 1))
                 ELSE [buffer |-> m.log_buffer, head |-> m.head,
                       count |-> m.count]
    IN  [t |-> t, pet |-> pet, stats |-> stats2, ignored |-> ignored,
         features |-> features, log |-> log]

StateTick(m, output, t, delta, tod) ==
    LET pet == core_state_update(m.pet, g_state_config, delta, output.action_id)
        stats1 == core_state_update_stats(m.stats, t)
        ignored == /\ stats1.last_interaction_ms > 0
                   /\ Sub32(t, stats1.last_interaction_ms) > 300000
                   /\ stats1.ignore_start_ms = 0
        stats2 == IF ignored THEN [stats1 EXCEPT !.ignore_start_ms = t]
                  ELSE stats1
        features == logger_build_features(pet, stats2, t, tod)
        log == IF ignored
                 THEN logger_log_event(g_log_initialized, m.log_buffer,
                                       m.head, m.count,
                                       EntryOf(INPUT_IGNORE, features,
                                               output, pet, t, m.appends + 1))
                 ELSE [buffer |-> m.log_buffer, head |-> m.head,
                       count |-> m.count]
    IN  [t |-> t, pet |-> pet, stats |-> stats2, ignored |-> ignored,
         features |-> features, log |-> log]

\* the state tick at millis() = now + delta, no gesture in the iteration
TickState(delta, tod) ==
    StateTick(MainState, g_brain_output, now + delta, delta, tod)

\* loop(), lines 331-381: the state tick
LoopTick ==
    /\ pc = "loop"
    /\ steps < MaxLoopSteps
    /\ \E delta \in TickDeltas, tod \in TimesOfDay :
         \E tick \in {TickState(delta, tod)} :
             /\ now' = tick.t
             /\ g_pet_state' = tick.pet
             /\ last_action' = g_brain_output.action_id
             /\ g_interaction_stats' = tick.stats
             /\ g_current_features' = tick.features
             /\ g_log_buffer' = tick.log.buffer
             /\ g_head' = tick.log.head
             /\ g_count' = tick.log.count
             /\ appends' = IF tick.ignored THEN appends + 1 ELSE appends
             /\ logged' = IF tick.ignored THEN logged + 1 ELSE logged
             /\ \E out \in {TickOutput(tick.features)} : g_brain_output' = out
             /\ last_ret' = [op |-> IF g_use_fallback_brain THEN "brain_fallback"
                                    ELSE "brain_infer",
                             ret |-> TRUE]
    /\ steps' = steps + 1
    /\ UNCHANGED <<buttonVars, sysVars, g_weights, g_custom_model_loaded,
                   g_model_version, g_use_fallback_brain, ref_call, learnVars,
                   g_log_initialized>>

\* loop(), lines 277-286: gestures reach on_button_event
OnButtonEvent ==
    /\ pc = "loop"
    /\ steps < MaxLoopSteps
    /\ \E run \in OwnerGestures, tod \in TimesOfDay :
         \E m \in {Gestures(MainState, run.event, g_brain_output, now + 1000,
                             tod, run.n)} :
             /\ now' = now + 1000 * run.n
             /\ g_pet_state' = m.pet
             /\ g_interaction_stats' = m.stats
             /\ g_current_features' = m.features
             /\ g_log_buffer' = m.log_buffer
             /\ g_head' = m.head
             /\ g_count' = m.count
             /\ appends' = m.appends
             /\ logged' = m.logged
             /\ g_learn_buffer' = m.learn_buffer
             /\ g_total_rewards' = m.total
    /\ last_ret' = [op |-> "on_button_event", ret |-> FALSE]
    /\ steps' = steps + 1
    /\ UNCHANGED <<last_action, buttonVars, sysVars, g_weights,
                   g_custom_model_loaded, g_model_version, g_use_fallback_brain,
                   g_brain_output, ref_call, g_action_biases,
                   g_learn_initialized, g_log_initialized>>

\* the device is switched off and on: the RAM is initialised again, NVS and
\* SPIFFS keep what they hold, and setup() runs up to brain_init
PowerCycle ==
    /\ pc = "loop"
    /\ steps < MaxLoopSteps
    /\ now' = 0
    /\ g_pet_state' = core_state_init
    /\ g_interaction_stats' = core_state_stats_init
    /\ last_action' = ACTION_IDLE
    /\ g_weights' = init_fallback_weights
    /\ g_custom_model_loaded' = FALSE
    /\ g_model_version' = 0
    /\ g_use_fallback_brain' = TRUE
    /\ g_brain_output' = BootOutput
    /\ g_current_features' = ZeroFeatures
    /\ g_action_biases' = learn_prefs.biases
    /\ g_learn_buffer' = <<>>
    /\ g_total_rewards' = learn_prefs.count
    /\ g_log_buffer' = <<>>
    /\ g_head' = 0
    /\ g_count' = 0
    /\ appends' = 0
    /\ g_model_callback' = FALSE
    /\ model_io' = NoModelIo
    /\ last_ret' = NoRet
    /\ pc' = "restore"
    /\ boots' = boots + 1
    /\ steps' = steps + 1
    /\ UNCHANGED <<buttonVars, care, storeVars, g_storage_initialized,
                   model_prefs, model_file, embedded, uploads, ref_call,
                   g_learn_initialized, g_log_initialized, logged>>

(***************************************************************************)
(* Event journal: the operations as steps                                  *)
(***************************************************************************)
MaxAppends == 160

\* milliseconds between two journal appends of a run
LogGaps == {700}

\* numbers of records after which a run may clear the journal
ClearPoints == {30, 120}

\* type of the k-th event of a run
EventAt(k) == (k % INPUT_IGNORE) + 1

\* logger_log_event(event, &g_current_features, &g_brain_output, &g_pet_state)
LoggerLogEvent ==
    /\ logged < MaxAppends
    /\ \E gap \in LogGaps : now' = (now + gap) % ClockWrap
    /\ LET entry == [timestamp |-> now' \div 1000,
                     input_event |-> EventAt(logged),
                     features |-> g_current_features,
                     model_action |-> g_brain_output.action_id,
                     model_valence |-> g_brain_output.valence,
                     model_arousal |-> g_brain_output.arousal,
                     state_after |-> g_pet_state,
                     append_no |-> appends + 1]
           r == logger_log_event(g_log_initialized, g_log_buffer, g_head,
                                 g_count, entry)
       IN  /\ g_log_buffer' = r.buffer
           /\ g_head' = r.head
           /\ g_count' = r.count
    /\ appends' = appends + 1
    /\ logged' = logged + 1
    /\ UNCHANGED <<steps, needsVars, buttonVars, sysVars, brainVars, learnVars,
                   g_log_initialized, last_ret>>

\* logger_clear()
LoggerClear ==
    /\ appends \in ClearPoints
    /\ g_head' = 0
    /\ g_count' = 0
    /\ appends' = 0
    /\ UNCHANGED <<now, steps, needsVars, buttonVars, sysVars, brainVars, learnVars,
                   g_log_buffer, g_log_initialized, logged, last_ret>>

(***************************************************************************)
(* Needs simulator: the operations as steps                                *)
(***************************************************************************)
MaxNeedsSteps == 5

\* delta_ms and stats-update gaps tried (a tick, a stalled loop)
DeltaSet == {2000, 1000000}
StatsGaps == {1000}

InRange(state) ==
    /\ state.hunger \in 0 .. One
    /\ state.energy \in 0 .. One
    /\ state.affection_need \in 0 .. One
    /\ state.trust \in 0 .. One
    /\ state.stress \in 0 .. One

NeedsStarts ==
    { core_state_init,
      [hunger |-> 0, energy |-> 0, affection_need |-> 0, trust |-> 0, stress |-> 0],
      [hunger |-> One, energy |-> One, affection_need |-> One, trust |-> One,
       stress |-> One] }

CoreStateUpdate ==
    /\ steps < MaxNeedsSteps
    /\ \E delta_ms \in DeltaSet, current_action \in PetActions :
         /\ g_pet_state' = core_state_update(g_pet_state, g_state_config,
                                             delta_ms, current_action)
         /\ last_action' = current_action
    /\ steps' = steps + 1
    /\ UNCHANGED <<now, g_interaction_stats, buttonVars, engineVars, sysVars>>

CoreStateFeed ==
    /\ steps < MaxNeedsSteps
    /\ g_pet_state' = core_state_feed(g_pet_state, g_state_config, g_interaction_stats)
    /\ g_interaction_stats' = spam_bump(g_interaction_stats)
    /\ steps' = steps + 1
    /\ UNCHANGED <<now, last_action, buttonVars, engineVars, sysVars>>

CoreStatePet ==
    /\ steps < MaxNeedsSteps
    /\ g_pet_state' = core_state_pet(g_pet_state, g_state_config, g_interaction_stats)
    /\ g_interaction_stats' = spam_bump(g_interaction_stats)
    /\ steps' = steps + 1
    /\ UNCHANGED <<now, last_action, buttonVars, engineVars, sysVars>>

CoreStateUpdateStats ==
    /\ steps < MaxNeedsSteps
    /\ \E gap \in StatsGaps :
         /\ now' = now + gap
         /\ g_interaction_stats' = core_state_update_stats(g_interaction_stats, now')
    /\ steps' = steps + 1
    /\ UNCHANGED <<g_pet_state, last_action, buttonVars, engineVars, sysVars>>

(***************************************************************************)
(* Owner care: feed, pet and the spam score as steps                       *)
(***************************************************************************)
MaxCareSteps == 8

\* time between two core_state_update_stats calls
CareGaps == {300}

CareStarts ==
    { [core_state_init EXCEPT !.hunger = h, !.affection_need = a, !.trust = t] :
        h \in {500000, 800000, One},
        a \in {500000, 900000},
        t \in {500000, 990000} }

\* the call, the state it found, and the number of core_state_feed calls in
\* a row since the spam score was 0
CareRecord(op, run) ==
    [op |-> op, state |-> g_pet_state, stats |-> g_interaction_stats, run |-> run]

CareFeed ==
    /\ steps < MaxCareSteps
    /\ g_pet_state' = core_state_feed(g_pet_state, g_state_config, g_interaction_stats)
    /\ g_interaction_stats' = spam_bump(g_interaction_stats)
    /\ care' = CareRecord("core_state_feed",
                          IF g_interaction_stats.spam_score = 0 THEN 1
                          ELSE IF care.run > 0 THEN care.run + 1 ELSE 0)
    /\ steps' = steps + 1
    /\ UNCHANGED <<now, last_action, buttonVars, engineVars, storeVars, bootVars>>

CarePet ==
    /\ steps < MaxCareSteps
    /\ g_pet_state' = core_state_pet(g_pet_state, g_state_config, g_interaction_stats)
    /\ g_interaction_stats' = spam_bump(g_interaction_stats)
    /\ care' = CareRecord("core_state_pet", 0)
    /\ steps' = steps + 1
    /\ UNCHANGED <<now, last_action, buttonVars, engineVars, storeVars, bootVars>>

CareStats ==
    /\ steps < MaxCareSteps
    /\ \E gap \in CareGaps :
         /\ now' = now + gap
         /\ g_interaction_stats' = core_state_update_stats(g_interaction_stats, now')
    /\ care' = CareRecord("core_state_update_stats", 0)
    /\ steps' = steps + 1
    /\ UNCHANGED <<g_pet_state, last_action, buttonVars, engineVars, storeVars, bootVars>>

BootNeeds ==
    /\ g_pet_state = core_state_init
    /\ g_interaction_stats = core_state_stats_init
    /\ last_action = ACTION_IDLE

(***************************************************************************)
(* Gesture recognizer: the operations as steps                             *)
(***************************************************************************)
MaxPolls == 8
MaxToggles == 4

\* time between two buttons_update calls (the poll period, a slow loop)
PollSteps == {50, 300}

ObsInit ==
    [raw |-> FALSE, since |-> 0, counted |-> FALSE, stable |-> 0, noise |-> 0,
     toggles |-> 0]

\* what an observer of the sampled raw line records: the start of the
\* current pressed run, the number of pressed runs seen stable for
\* debounce_ms and of those that ended before
Observe(o, raw, t) ==
    LET since == IF raw /\ ~o.raw THEN t ELSE o.since
        stableNow == raw /\ (t - since >= g_config.debounce_ms)
        inRun == raw /\ o.raw
    IN  [raw |-> raw,
         since |-> since,
         counted |-> raw /\ ((inRun /\ o.counted) \/ stableNow),
         stable |-> o.stable + (IF stableNow /\ ~(inRun /\ o.counted) THEN 1 ELSE 0),
         noise |-> o.noise + (IF ~raw /\ o.raw /\ ~o.counted THEN 1 ELSE 0),
         toggles |-> o.toggles + (IF raw # o.raw THEN 1 ELSE 0)]

Toggles(o) == o[BUTTON_FEED].toggles + o[BUTTON_PET].toggles

\* the press history after one step of a button
PressLog(log, old, new, t) ==
    IF ~old.current_state /\ new.current_state
      THEN Append(log, [start |-> t, rel |-> -1])
    ELSE IF old.current_state /\ ~new.current_state
      THEN [log EXCEPT ![Len(log)].rel = t]
    ELSE log

GestureLog(log, ev, t) ==
    log \o [i \in 1 .. Len(ev) |-> [gesture |-> ev[i], t |-> t]]

\* the levels digitalRead can return: the idle line reads released
RawLevels(line) == {r \in [Buttons -> BOOLEAN] : \A b \in Buttons \ {line} : ~r[b]}

\* buttons_update(current_ms), digitalRead returning raw[i] for button i
\* mutant: with a callback registered the register is filled as well
emit_event_both(callback, reg, event) ==
    [pending |-> event, has_pending |-> TRUE,
     calls |-> IF callback THEN Append(reg.calls, event) ELSE reg.calls]

\* emit_event on the register and on the list of callback invocations
emit_event(callback, reg, event) ==
    IF callback
      THEN [pending |-> reg.pending, has_pending |-> reg.has_pending,
            calls |-> Append(reg.calls, event)]
      ELSE [pending |-> event, has_pending |-> TRUE, calls |-> reg.calls]

RECURSIVE EmitAll(_, _, _, _)
\* the emit_event calls of one buttons_update, in the order of the buttons
EmitAll(callback, reg, evs, i) ==
    IF i > Len(evs) THEN reg
    ELSE EmitAll(callback, emit_event(callback, reg, evs[i]), evs, i + 1)

ButtonsUpdate ==
    /\ steps < MaxPolls
    /\ \E dt \in PollSteps, raw \in RawLevels(active_line) :
         LET t == now + dt
             res == [b \in Buttons |-> ButtonStep(g_state[b], raw[b], t)]
             evs == EventsOf(res, t)
         IN  \* the raw lines change at most MaxToggles times in a run
             /\ Toggles(obs) + Cardinality({b \in Buttons : raw[b] # obs[b].raw})
                  <= MaxToggles
             /\ now' = t
             /\ g_state' = [b \in Buttons |-> res[b].st]
             /\ emitted' = evs
             /\ \E reg \in {EmitAll(g_callback,
                                     [pending |-> g_pending_event,
                                      has_pending |-> g_has_pending_event,
                                      calls |-> <<>>], evs, 1)} :
                  /\ cb_calls' = reg.calls
                  /\ g_pending_event' = reg.pending
                  /\ g_has_pending_event' = reg.has_pending
             /\ obs' = [b \in Buttons |-> Observe(obs[b], raw[b], t)]
             /\ plog' = [b \in Buttons |-> PressLog(plog[b], g_state[b], res[b].st, t)]
             /\ glog' = [b \in Buttons |-> GestureLog(glog[b], res[b].ev, t)]
    /\ steps' = steps + 1
    /\ UNCHANGED <<g_callback, active_line, needsVars, engineVars, sysVars>>

\* buttons_get_event with an event waiting (without one it changes nothing)
ButtonsGetEvent ==
    /\ g_has_pending_event
    /\ g_has_pending_event' = FALSE
    /\ UNCHANGED <<now, steps, g_state, g_pending_event, g_callback, active_line, cb_calls, emitted,
                   obs, plog, glog, needsVars, engineVars, sysVars>>

BootButtons ==
    /\ g_state = [b \in Buttons |-> ButtonStateInit]
    /\ g_has_pending_event = FALSE
    /\ g_pending_event = NoEvent
    /\ g_callback = FALSE
    /\ active_line = BUTTON_FEED
    /\ cb_calls = <<>>
    /\ emitted = <<>>
    /\ obs = [b \in Buttons |-> ObsInit]
    /\ plog = [b \in Buttons |-> <<>>]
    /\ glog = [b \in Buttons |-> <<>>]

InitButtons ==
    /\ now = 0
    /\ steps = 0
    /\ BootSys
    /\ BootNeeds
    /\ BootEngine
    /\ g_state = [b \in Buttons |-> ButtonStateInit]
    /\ g_has_pending_event = FALSE
    /\ g_pending_event = NoEvent
    \* buttons_set_callback may have been called after buttons_init
    /\ g_callback \in BOOLEAN
    /\ active_line \in Buttons
    /\ cb_calls = <<>>
    /\ emitted = <<>>
    /\ obs = [b \in Buttons |-> ObsInit]
    /\ plog = [b \in Buttons |-> <<>>]
    /\ glog = [b \in Buttons |-> <<>>]

NextButtons ==
    \/ ButtonsUpdate
    \/ ButtonsGetEvent

InitNeeds ==
    /\ now = 0
    /\ steps = 0
    /\ BootSys
    /\ g_pet_state \in NeedsStarts
    /\ g_interaction_stats \in
         { [core_state_stats_init EXCEPT !.spam_score = s] : s \in {0, One} }
    /\ last_action = ACTION_IDLE
    /\ BootButtons
    /\ BootEngine

NextNeeds ==
    \/ CoreStateUpdate
    \/ CoreStateFeed
    \/ CoreStatePet
    \/ CoreStateUpdateStats

SpecNeeds == InitNeeds /\ [][NextNeeds]_vars

SpecButtons == InitButtons /\ [][NextButtons]_vars

\* feeding and petting from a fresh InteractionStats
InitCare ==
    /\ now = 0
    /\ steps = 0
    /\ g_pet_state \in CareStarts
    /\ g_interaction_stats = core_state_stats_init
    /\ last_action = ACTION_IDLE
    /\ BootButtons
    /\ BootEngine
    /\ BootSys

NextCare ==
    \/ CareFeed
    \/ CarePet
    \/ CareStats

SpecCare == InitCare /\ [][NextCare]_vars

\* setup() found no stored model file: the rule ladder decides
NoModelStored ==
    /\ g_weights = init_fallback_weights
    /\ g_custom_model_loaded = FALSE
    /\ g_model_version = 0
    /\ g_use_fallback_brain = TRUE

\* setup() loaded the stored model file: the learned path decides
ModelStored(data) ==
    /\ g_weights = LoadedWeights(data)
    /\ g_custom_model_loaded = TRUE
    /\ g_model_version = VersionOf(data)
    /\ g_use_fallback_brain = FALSE

\* model uploads and decisions, with the learner idle
InitLoad ==
    /\ now = 0
    /\ steps = 0
    /\ BootSys
    /\ BootNeeds
    /\ BootButtons
    /\ BootLearn
    /\ BootLogger
    /\ NoModelStored \/ \E data \in ModelFiles : ModelStored(data)
    /\ g_brain_output = BootOutput
    /\ g_current_features = ZeroFeatures
    /\ ref_call = NoCall
    /\ last_ret = NoRet

NextLoad ==
    \/ ModelUpload
    \/ BrainInfer
    \/ TickFallback

SpecLoad == InitLoad /\ [][NextLoad]_vars

\* the learned path with the learner at work
InitBrain ==
    /\ now = 0
    /\ steps = 0
    /\ BootSys
    /\ BootNeeds
    /\ BootButtons
    /\ BootLearn
    /\ BootLogger
    /\ \E data \in ModelFiles : ModelStored(data)
    /\ g_brain_output = BootOutput
    /\ g_current_features = ZeroFeatures
    /\ ref_call = NoCall
    /\ last_ret = NoRet

NextBrain ==
    \/ ModelUpload
    \/ BrainInfer
    \/ OnlineLearnReward
    \/ OnlineLearnApply

SpecBrain == InitBrain /\ [][NextBrain]_vars

\* the learner alone: online_learn_init has read NVS, and up to fourteen
\* rewards are queued
InitLearn ==
    /\ now = 0
    /\ steps = 0
    /\ BootNeeds
    /\ BootButtons
    /\ BootBrain
    /\ BootLogger
    /\ care = NoCare
    /\ BootMain
    /\ learn_prefs \in {NoLearnPrefs, SaturatedPrefs}
    /\ g_action_biases = learn_prefs.biases
    /\ \E n \in {0, 14} :
         /\ g_learn_buffer = Queued(n, ACTION_HAPPY)
         /\ g_total_rewards = learn_prefs.count + n
    /\ g_learn_initialized = TRUE
    /\ last_ret = NoRet

NextLearn ==
    \/ RewardCall
    \/ OnlineLearnApply
    \/ OnlineLearnSave

SpecLearn == InitLearn /\ [][NextLearn]_vars

\* the whole firmware: setup() has come to brain_init on a device whose
\* flash holds one of StoredModels, then loop() runs
InitMain ==
    /\ now = 0
    /\ steps = 0
    /\ BootNeeds
    /\ BootButtons
    /\ BootEngine
    /\ care = NoCare
    /\ learn_prefs = NoLearnPrefs
    /\ BootWeb
    /\ BootLoop
    /\ pc = "restore"
    /\ \E dev \in Devices :
         /\ g_storage_initialized = dev.mounted
         /\ model_prefs = dev.stored.prefs
         /\ model_file = dev.stored.file
         /\ embedded = dev.embedded
    /\ g_model_callback = FALSE
    /\ uploads = 0
    /\ boots = 0
    /\ model_io = NoModelIo

NextMain ==
    \/ SetupRestore
    \/ SetupFinish
    \/ HandleApiModelPost
    \/ LoopTick
    \/ OnButtonEvent
    \/ PowerCycle

SpecMain == InitMain /\ [][NextMain]_vars

\* the rule ladder on every feature vector of the grid
InitFallback ==
    /\ now = 0
    /\ steps = 0
    /\ BootSys
    /\ BootNeeds
    /\ BootButtons
    /\ BootLearn
    /\ BootLogger
    /\ g_weights = init_fallback_weights
    /\ g_custom_model_loaded = FALSE
    /\ g_model_version = 0
    /\ g_use_fallback_brain = TRUE
    /\ g_brain_output = BootOutput
    /\ g_current_features \in FallbackGrid
    /\ ref_call = NoCall
    /\ last_ret = NoRet

NextFallback == BrainFallback

SpecFallback == InitFallback /\ [][NextFallback]_vars

InitLogger ==
    /\ now = 0
    /\ steps = 0
    /\ BootSys
    /\ BootNeeds
    /\ BootButtons
    /\ BootEngine

NextLogger ==
    \/ LoggerLogEvent
    \/ LoggerClear

SpecLogger == InitLogger /\ [][NextLogger]_vars

\* C1: after any sequence of core_state_update, core_state_feed and
\* core_state_pet calls from an in-range state, with spamScore in [0,1],
\* each of hunger, energy, affection_need, trust and stress lies in [0,1].
C1_NeedsInRange ==
    /\ InRange(g_pet_state)
    /\ g_interaction_stats.spam_score \in 0 .. One

\* a run in which a tick, a feed and a pet have all acted and a field sits
\* on each limit
C1_Witness ==
    /\ steps >= 3
    /\ g_pet_state.hunger = One
    /\ g_pet_state.affection_need = 0
    /\ g_interaction_stats.spam_score > 0

(***************************************************************************)
(* Gesture laws                                                            *)
(***************************************************************************)
Completed(p) == p.rel >= 0
Duration(p) == p.rel - p.start
IsLong(p) == Completed(p) /\ Duration(p) >= g_config.long_press_ms
IsShort(p) == Completed(p) /\ Duration(p) < g_config.long_press_ms

\* the start of the press after press k of button b (none: after now)
NextStart(b, k) == IF k < Len(plog[b]) THEN plog[b][k + 1].start ELSE now + 1

\* the gestures of button b emitted at a time in [lo, hi)
GesturesIn(b, lo, hi) ==
    LET InWindow(g) == lo <= g.t /\ g.t < hi
    IN  SelectSeq(glog[b], InWindow)

\* press k of button b starts a press sequence: the press before it (if
\* any) had its gesture before press k began
Fresh(b, k) ==
    \/ k = 1
    \/ GesturesIn(b, plog[b][k - 1].rel, plog[b][k].start) # <<>>

\* the sample of this poll is a pressed level not yet stable for debounce_ms
Unstable(o) == o.raw /\ ~o.counted

\* C2: a raw press that is released before it has been pressed for
\* debounce_ms (50 ms) causes no gesture and leaves the debounced level and
\* press_count as they are: a poll whose sample is pressed but not yet stable
\* changes neither, every debounced press belongs to a pressed run seen
\* stable, and every gesture to a debounced press.
C2_NoisePress ==
    /\ [](\A b \in Buttons :
            /\ Len(plog[b]) <= obs[b].stable
            /\ Len(glog[b]) <= Len(plog[b])
            /\ g_state[b].press_count <= Len(plog[b])
            /\ (obs[b].stable = 0 =>
                  ~g_state[b].current_state /\ ~g_state[b].pending_event))
    /\ [][\A b \in Buttons :
            Unstable(obs'[b]) =>
              /\ g_state'[b].current_state = g_state[b].current_state
              /\ g_state'[b].press_count <= g_state[b].press_count]_vars

\* a noise press went by without any effect, before a real press
C2_Witness ==
    \E b \in Buttons :
      /\ obs[b].noise >= 1
      /\ obs[b].stable = 1
      /\ Len(plog[b]) = 1
      /\ plog[b][1].start > obs[b].since

\* C3: a debounced press lasting long_press_ms (500 ms) or more gives exactly
\* one LONG gesture, emitted by the call that observes the release, and no
\* other gesture from its start to the next press; right after that call
\* press_count = 0 and pending_event = FALSE.
C3_LongPress ==
    \A b \in Buttons : \A k \in 1 .. Len(plog[b]) :
      IsLong(plog[b][k]) =>
        /\ GesturesIn(b, plog[b][k].start, NextStart(b, k))
             = << [gesture |-> GESTURE_LONG, t |-> plog[b][k].rel] >>
        /\ (now = plog[b][k].rel =>
              g_state[b].press_count = 0 /\ ~g_state[b].pending_event)

\* a long press that began while a short press was still pending
C3_Witness ==
    \E b \in Buttons :
      /\ Len(plog[b]) = 2
      /\ IsShort(plog[b][1])
      /\ IsLong(plog[b][2])
      /\ plog[b][2].start - plog[b][1].rel < g_config.double_press_ms
      /\ glog[b] = << [gesture |-> GESTURE_LONG, t |-> plog[b][2].rel] >>
      /\ now = plog[b][2].rel

\* C4: two short debounced presses, the second starting less than
\* double_press_ms (300 ms) after the release of the first, give exactly one
\* DOUBLE gesture and no SHORT gesture.
C4_DoublePress ==
    \A b \in Buttons : \A k \in 1 .. (Len(plog[b]) - 1) :
      ( /\ Fresh(b, k)
        /\ IsShort(plog[b][k])
        /\ IsShort(plog[b][k + 1])
        /\ plog[b][k + 1].start - plog[b][k].rel < g_config.double_press_ms )
      => GesturesIn(b, plog[b][k].start, NextStart(b, k + 1))
           = << [gesture |-> GESTURE_DOUBLE, t |-> plog[b][k + 1].rel] >>

C4_Witness ==
    \E b \in Buttons :
      /\ Len(plog[b]) = 2
      /\ IsShort(plog[b][1])
      /\ IsShort(plog[b][2])
      /\ plog[b][2].start - plog[b][1].rel < g_config.double_press_ms
      /\ glog[b] = << [gesture |-> GESTURE_DOUBLE, t |-> plog[b][2].rel] >>

(***************************************************************************)
(* Owner care: claims                                                      *)
(***************************************************************************)
\* the trust a call leaves: raised by gain (clamped at 1) when the need was
\* above 0.5 and 1 - spam_score * 0.7 was above 0.5, else as it was
C11_Trust(need, gain) ==
    IF need > 500000 /\ 7 * care'.stats.spam_score < 5 * One
      THEN Min(One, care'.state.trust + gain)
      ELSE care'.state.trust

\* C11: core_state_feed with spamScore = 0 lowers hunger by exactly
\* feed_hunger_reduction (0.4), clamped at 0, and trust rises by 0.02
\* (clamped at 1) in a feed call iff hunger before the call was > 0.5 and
\* effectiveness was > 0.5, else the call leaves trust unchanged; likewise
\* core_state_pet with affection_need, 0.35 and a trust gain of 0.015.
C11_FeedAndPet ==
    [][/\ care'.op = "core_state_feed" =>
            /\ care'.stats.spam_score = 0 =>
                  g_pet_state'.hunger = Max(0, care'.state.hunger - 400000)
            /\ g_pet_state'.trust = C11_Trust(care'.state.hunger, 20000)
       /\ care'.op = "core_state_pet" =>
            /\ care'.stats.spam_score = 0 =>
                  g_pet_state'.affection_need
                    = Max(0, care'.state.affection_need - 350000)
            /\ g_pet_state'.trust = C11_Trust(care'.state.affection_need, 15000)]_vars

\* hunger 0.8 fed once at spam score 0: hunger 0.4, trust raised
C11_Witness ==
    /\ care.op = "core_state_feed"
    /\ care.stats.spam_score = 0
    /\ care.state.hunger = 800000
    /\ g_pet_state.hunger = 400000
    /\ g_pet_state.trust = care.state.trust + 20000

\* C12 as stated: from spamScore = 0, three core_state_feed calls in a row
\* raise spamScore to 1.0.
C12_ThreeFeedsSaturate ==
    (care.op = "core_state_feed" /\ care.run = 3)
      => g_interaction_stats.spam_score = One

\* feed_hunger_reduction * effectiveness of the n-th feed in a row
C12_Reduction(n) == 400000 - (28 * Min(One, 150000 * (n - 1))) \div 100

\* C12 amended: from spamScore = 0, n core_state_feed calls in a row leave
\* spamScore at min(1, 0.15 n), 0.45 after three and 1.0 from the seventh on,
\* and the n-th of them lowers hunger by 0.4 * (1 - 0.7 * min(1, 0.15 (n-1))),
\* which shrinks with every call but never falls below 0.12.
C12_FeedsInARow ==
    [][(care'.op = "core_state_feed" /\ care'.run > 0) =>
          /\ g_interaction_stats'.spam_score = Min(One, 150000 * care'.run)
          /\ g_pet_state'.hunger
               = Max(0, g_pet_state.hunger - C12_Reduction(care'.run))
          /\ C12_Reduction(care'.run) >= 120000
          /\ care'.run > 1 => C12_Reduction(care'.run) <= C12_Reduction(care'.run - 1)]_vars

\* eight feeds in a row: the spam score sits on its limit and the last feed
\* took its least effect
C12_Witness ==
    /\ care.op = "core_state_feed"
    /\ care.run = 8
    /\ care.stats.spam_score = One
    /\ g_interaction_stats.spam_score = One

(***************************************************************************)
(* Decision engine, online learner, journal: claims                        *)
(***************************************************************************)
\* serialized size of a model: the version word and the float32 values
ExactSize == 4 + (12 * 16 + 16 + 16 * 10 + 10) * 4

\* C5: brain_load_weights with a buffer shorter than the exact serialized
\* size (1516 bytes), in particular one byte shorter, returns false and
\* leaves the weights and biases, the model version, the custom-model flag
\* and the fallback/learned mode as they were.
C5_ShortBufferRejected ==
    [][\A data \in ModelFiles, size \in BufferSizes :
         (size < ExactSize /\ OnModelUploaded(data, size, TRUE))
         => /\ last_ret' = [op |-> "brain_load_weights", ret |-> FALSE,
                            size |-> size]
            /\ UNCHANGED <<g_weights, g_model_version, g_custom_model_loaded,
                           g_use_fallback_brain>>]_vars

\* a buffer one byte short was refused while an uploaded model was active
C5_Witness ==
    /\ last_ret = [op |-> "brain_load_weights", ret |-> FALSE,
                   size |-> ExactSize - 1]
    /\ g_custom_model_loaded
    /\ ~g_use_fallback_brain
    /\ g_weights = LoadedWeights("A")

\* the branches of the rule ladder in the order the claim gives them
C6_Branches(f) ==
    << <<f.energy < 200000, ACTION_SLEEP>>,
       <<f.hunger > 700000, ACTION_ASK_FOOD>>,
       <<f.affection_need > 600000, ACTION_ASK_PET>>,
       <<f.stress > 600000, ACTION_ANNOYED>>,
       <<f.hunger < 300000 /\ f.energy > 500000 /\ f.affection_need < 300000
           /\ f.dt_seconds_norm > 500000, ACTION_SAD>>,
       <<f.hunger < 300000 /\ f.energy > 500000 /\ f.affection_need < 300000,
         ACTION_HAPPY>>,
       <<f.energy > 600000 /\ f.stress < 300000, ACTION_PLAY>>,
       <<TRUE, ACTION_IDLE>> >>

\* the action of the first branch that matches
C6_FirstMatch(f) ==
    LET b == C6_Branches(f)
        k == CHOOSE n \in 1 .. Len(b) :
                 b[n][1] /\ \A m \in 1 .. (n - 1) : ~b[m][1]
    IN  b[k][2]

\* C6: brain_fallback returns the action of the first matching branch of the
\* ladder: energy < 0.2 sleep; hunger > 0.7 ask-food; affection-need > 0.6
\* ask-pet; stress > 0.6 annoyed; (hunger < 0.3, energy > 0.5,
\* affection-need < 0.3) sad if time-since-interaction > 0.5 else happy;
\* (energy > 0.6, stress < 0.3) play; otherwise idle.
C6_LadderOrder ==
    last_ret.op = "brain_fallback"
    => g_brain_output.action_id = C6_FirstMatch(g_current_features)

\* energy = 0.1 with hunger = 0.9 selected sleep
C6_Witness ==
    /\ last_ret.op = "brain_fallback"
    /\ g_current_features.energy = 100000
    /\ g_current_features.hunger = 900000
    /\ g_brain_output.action_id = ACTION_SLEEP

\* logit[i] + bias[i] over the eight actions, for a recorded brain_infer call
C7_BiasedLogits(call) ==
    Only({ [i \in ActionIdx |-> logits[i] + call.biases[i]] :
           logits \in {Eager(Logits(call.weights, InputOf(call.features)))} })

\* C7: on the learned path the learner's bias is added to the eight action
\* logits before the softmax, and the selected action is the first argmax of
\* logit[i] + bias[i].
C7_BiasBeforeSoftmax ==
    ref_call.valid
    => ref_call.out.action_id = FirstArgmax(C7_BiasedLogits(ref_call))

\* a step that is a brain_infer call with the weights and the feature vector
\* of the recorded earlier call
C8_SameCall ==
    /\ last_ret'.op = "brain_infer"
    /\ ref_call.valid
    /\ ref_call.weights = g_weights'
    /\ ref_call.features = g_current_features'

\* C8: two brain_infer calls with identical weights and an identical feature
\* vector return the same action, valence and arousal, whatever happened
\* between them.
C8_SameWeightsAndFeatures ==
    [][C8_SameCall => g_brain_output' = ref_call.out]_vars

\* C8 (amended): two brain_infer calls with identical weights and an
\* identical feature vector return the same valence and arousal; they return
\* the same action as well if the learner's bias vector is the same at both.
C8_SameBiasesToo ==
    [][C8_SameCall
       => /\ g_brain_output'.valence = ref_call.out.valence
          /\ g_brain_output'.arousal = ref_call.out.arousal
          /\ ref_call.biases = g_action_biases'
             => g_brain_output' = ref_call.out]_vars

\* a second call, made after a reward was queued, met the inputs and the
\* biases of a recorded earlier call
C8_Witness ==
    /\ ref_call.valid
    /\ last_ret.op = "brain_infer"
    /\ ref_call.rewards < g_total_rewards
    /\ ref_call.weights = g_weights
    /\ ref_call.features = g_current_features
    /\ ref_call.biases = g_action_biases
    /\ g_brain_output = ref_call.out

\* C9: online_learn_apply with an empty queue returns false and leaves the
\* bias vector, the queue and the reward counter unchanged, however often it
\* is called.
C9_EmptyApply ==
    [][(g_learn_buffer = <<>> /\ OnlineLearnApply)
       => /\ last_ret' = [op |-> "online_learn_apply", ret |-> FALSE]
          /\ UNCHANGED <<g_action_biases, g_learn_buffer,
                         g_total_rewards>>]_vars

\* an empty queue was applied to biases that an earlier apply had learned
C9_Witness ==
    /\ last_ret = [op |-> "online_learn_apply", ret |-> FALSE]
    /\ g_learn_buffer = <<>>
    /\ g_total_rewards > 0
    /\ g_action_biases # ZeroBiases

\* logger_get_event(index) on the journal of the state
C10_Get(index) ==
    logger_get_event(g_log_initialized, g_log_buffer, g_head, g_count, index)

\* C10: after n appends since logger_init or logger_clear the journal holds
\* min(n, 100) records, and logger_get_event(i) returns the record of append
\* number max(n - 100, 0) + i + 1 for every i below that count.
C10_RingOrder ==
    /\ g_count = Min(appends, 100)
    /\ \A i \in 0 .. (g_count - 1) :
         /\ C10_Get(i).ret
         /\ C10_Get(i).entry.append_no = Max(appends - 100, 0) + i + 1
    /\ ~C10_Get(g_count).ret

\* after 150 appends: 100 records, and index 0 is append #51
C10_Witness ==
    /\ appends = 150
    /\ g_count = 100
    /\ C10_Get(0).entry.append_no = 51

(***************************************************************************)
(* Online learner: claims                                                  *)
(***************************************************************************)
\* the step is an online_learn_reward call
C13_RewardStep == last_ret'.op = "online_learn_reward"

\* C13: the experience queue never holds more than 16 entries, and an
\* online_learn_reward call made while it holds 16 is dropped: the queue and
\* the bias vector stay as they were.
C13_QueueBounded ==
    /\ [](Len(g_learn_buffer) <= 16)
    /\ [][(C13_RewardStep /\ Len(g_learn_buffer) = 16)
            => UNCHANGED <<g_learn_buffer, g_action_biases>>]_vars

\* a reward of a valid action was dropped on a queue of sixteen
C13_Witness ==
    /\ last_ret.op = "online_learn_reward"
    /\ last_ret.action = ACTION_ASK_FOOD
    /\ Len(g_learn_buffer) = 16
    /\ g_total_rewards = 16
    /\ steps = 3

\* C14 as stated: the counter never decreases, and every online_learn_reward
\* call with an action in 0..7 on an initialised learner raises it by one.
C14_EveryValidRewardCounts ==
    [][/\ g_total_rewards' >= g_total_rewards
       /\ (C13_RewardStep /\ last_ret'.action \in 0 .. 7 /\ g_learn_initialized)
            => g_total_rewards' = g_total_rewards + 1]_vars

\* C14 amended: the counter never decreases; an online_learn_reward call
\* with an action in 0..7 on an initialised learner raises it by one when
\* the queue holds fewer than 16 entries, and every other call (a full
\* queue, an action above 7, apply, save) leaves it as it was.
C14_QueuedRewardsCount ==
    [][g_total_rewards' =
         IF /\ C13_RewardStep
            /\ last_ret'.action \in 0 .. 7
            /\ g_learn_initialized
            /\ Len(g_learn_buffer) < 16
           THEN g_total_rewards + 1
           ELSE g_total_rewards]_vars

\* the counter stands at the 224 read from NVS plus the sixteen rewards
\* queued, after a reward that a queue of sixteen dropped
C14_Witness ==
    /\ last_ret.op = "online_learn_reward"
    /\ last_ret.action = ACTION_HAPPY
    /\ Len(g_learn_buffer) = 16
    /\ g_total_rewards = 224 + 16
    /\ steps = 3

\* 0.99 * x, rounded towards zero
C15_Decay(x) == IF x >= 0 THEN (x * 99) \div 100 ELSE 0 - ((0 - x) * 99) \div 100

\* the number of queued experiences that reward action a
C15_Rewards(a) ==
    Cardinality({e \in 1 .. Len(g_learn_buffer) : g_learn_buffer[e].action = a})

\* C15: online_learn_apply on a queue of N > 0 experiences, n_a of them for
\* action a, sets bias[a] to clamp(0.99 old[a] + 0.1 n_a - 0.01 (N - n_a), -2, 2)
\* for every action a (one decay, before the rewards; one clamp, after them).
C15_ApplyFormula ==
    [][(last_ret'.op = "online_learn_apply" /\ g_learn_buffer # <<>>
        /\ g_learn_initialized)
       => \A a \in 0 .. 7 :
            g_action_biases'[a] =
              Max(0 - 2 * One,
                  Min(2 * One,
                      C15_Decay(g_action_biases[a]) + 100000 * C15_Rewards(a)
                        - 10000 * (Len(g_learn_buffer) - C15_Rewards(a))))]_vars

\* fourteen rewards of ACTION_HAPPY and two of ACTION_ASK_FOOD applied to
\* zero biases
C15_Witness ==
    /\ last_ret = [op |-> "online_learn_apply", ret |-> TRUE]
    /\ g_action_biases[ACTION_HAPPY] = 1380000
    /\ g_action_biases[ACTION_ASK_FOOD] = 60000
    /\ g_action_biases[ACTION_SLEEP] = -160000

\* C16: every bias lies in [-2, 2] in every reachable state; after an
\* online_learn_apply on a non-empty queue the queue is empty, and a reward
\* of a valid action is accepted whenever fewer than 16 are queued.
C16_BiasesBounded ==
    /\ [](\A a \in 0 .. 7 : g_action_biases[a] \in (0 - 2 * One) .. (2 * One))
    /\ [][/\ (last_ret'.op = "online_learn_apply" /\ g_learn_buffer # <<>>)
              => g_learn_buffer' = <<>>
          /\ (C13_RewardStep /\ last_ret'.action \in 0 .. 7
               /\ Len(g_learn_buffer) < 16)
              => Len(g_learn_buffer') = Len(g_learn_buffer) + 1]_vars

\* an apply on sixteen rewards left a bias on the upper limit, one above the
\* lower limit and the queue empty
C16_Witness ==
    /\ last_ret = [op |-> "online_learn_apply", ret |-> TRUE]
    /\ g_learn_buffer = <<>>
    /\ g_action_biases[ACTION_HAPPY] = 2 * One
    /\ g_action_biases[ACTION_ASK_FOOD] = -1920000
    /\ g_action_biases[ACTION_SLEEP] = 0 - 2 * One

(***************************************************************************)
(* Model transfer, state tick and mode: claims                             *)
(***************************************************************************)
\* the step was an upload or the restore of setup()
C17_TransferStep ==
    last_ret'.op \in {"handle_api_model_post", "storage_load_model"}

\* C17: a model buffer reaches brain_load_weights only after its CRC32 was
\* compared with the declared checksum and agreed; on an upload and on the
\* restore at boot, a mismatch gives a failure result, no brain_load_weights
\* call with the buffer, and the weights, the loaded flag, the version and
\* the mode stay as they were
C17_ChecksumBeforeLoad ==
    /\ [](\A i \in DOMAIN model_io.loads :
            model_io.loads[i].path \in {"upload", "restore"}
            => /\ model_io.checked
               /\ model_io.match
               /\ model_io.loads[i].data = model_io.data
               /\ model_io.loads[i].size = model_io.size)
    /\ [][(C17_TransferStep /\ model_io'.checked /\ ~model_io'.match)
          => /\ ~model_io'.result
             /\ last_ret'.ret = FALSE
             /\ model_io'.loads = <<>>
             /\ UNCHANGED <<g_weights, g_custom_model_loaded, g_model_version,
                            g_use_fallback_brain>>]_vars

\* an upload with a wrong checksum was refused while the model restored at
\* boot stays in force
C17_Witness ==
    /\ model_io.path = "upload"
    /\ model_io.checked
    /\ ~model_io.match
    /\ ~model_io.result
    /\ g_custom_model_loaded
    /\ ~g_use_fallback_brain
    /\ g_weights = LoadedWeights("A")

\* the step was a state tick
C18_TickStep == last_ret'.op \in {"brain_fallback", "brain_infer"}

\* a BrainOutput with one of the eight actions, valence in [-1, 1] and
\* arousal in [0, 1]
C18_WellFormed(output) ==
    /\ output.action_id \in 0 .. (ACTION_COUNT - 1)
    /\ 0 - One <= output.valence /\ output.valence <= One
    /\ 0 <= output.arousal /\ output.arousal <= One

C19_LoadsOfStep ==
    IF last_ret'.op = "setup"
      THEN SubSeq(model_io'.loads, Len(model_io.loads) + 1, Len(model_io'.loads))
    ELSE IF last_ret'.op \in {"handle_api_model_post", "storage_load_model"}
      THEN model_io'.loads
    ELSE <<>>

\* C19: in setup() and loop() the learned strategy is the active one exactly
\* when a brain_load_weights call has succeeded since brain_init; a
\* successful load switches to the learned strategy, a failed load and a step
\* without a load leave the mode as it was, and with no stored model, no
\* embedded model and no upload a state tick is decided by brain_fallback
C19_ModeFollowsLoads ==
    /\ [](g_use_fallback_brain <=> ~g_custom_model_loaded)
    /\ [][/\ ((\E i \in DOMAIN C19_LoadsOfStep : C19_LoadsOfStep[i].ret)
                => (~g_use_fallback_brain' /\ g_custom_model_loaded'))
           /\ (((\A i \in DOMAIN C19_LoadsOfStep : ~C19_LoadsOfStep[i].ret)
                  /\ last_ret'.op # "none")
                => UNCHANGED <<g_use_fallback_brain, g_custom_model_loaded>>)
           /\ ((/\ last_ret'.op \in {"brain_fallback", "brain_infer"}
                 /\ ~model_prefs.valid
                 /\ embedded = NoEmbedded
                 /\ model_io.path # "upload")
                => (/\ last_ret'.op = "brain_fallback"
                    /\ g_brain_output' = brain_fallback(g_current_features')))]_vars

\* a device that booted into the rule ladder runs the learned strategy after
\* an upload was loaded
C19_Witness ==
    /\ boots = 0
    /\ ~(embedded # NoEmbedded)
    /\ model_io.path = "upload"
    /\ Len(model_io.loads) = 1
    /\ model_io.loads[1].ret
    /\ ~g_use_fallback_brain
    /\ g_custom_model_loaded
    /\ last_ret.op = "brain_infer"

(***************************************************************************)
(* Gestures: delivery                                                      *)
(***************************************************************************)
\* C20: every gesture buttons_update emits goes one way only.  With a
\* callback registered the callback runs once per gesture and the pending
\* register is left as it was, empty, so that the buttons_get_event drain of
\* loop() hands on_button_event nothing more; with no callback the register
\* holds the gesture and no callback runs
C20_OneDelivery ==
    [][steps' = steps + 1
       => IF g_callback
            THEN /\ cb_calls' = emitted'
                 /\ UNCHANGED <<g_has_pending_event, g_pending_event>>
                 /\ ~g_has_pending_event'
            ELSE /\ cb_calls' = <<>>
                 /\ IF emitted' = <<>>
                      THEN UNCHANGED <<g_has_pending_event, g_pending_event>>
                      ELSE /\ g_has_pending_event'
                           /\ g_pending_event' = emitted'[Len(emitted')]]_vars

\* a gesture went to the callback and the register is empty
C20_Witness ==
    /\ g_callback
    /\ Len(emitted) = 1
    /\ cb_calls = emitted
    /\ emitted[1].gesture # GESTURE_NONE
    /\ ~g_has_pending_event

(***************************************************************************)
(* Event journal: shape                                                    *)
(***************************************************************************)
\* the indexes asked for: the oldest record, the newest, the first index
\* refused, the capacity, the largest uint16_t
C25_Indexes == {0, g_count - 1, g_count, LOG_MAX_EVENTS, 65535} \ {-1}

\* what the caller's LogEntry holds before the call
C25_CallerEntry == [append_no |-> 0]

\* the caller's LogEntry after logger_get_event(index, &entry)
C25_EntryAfter(index) ==
    LET r == logger_get_event(g_log_initialized, g_log_buffer, g_head, g_count,
                              index)
    IN  IF r.ret THEN r.entry ELSE C25_CallerEntry

\* C25: the journal holds at most 100 records, its write position is below
\* 100 and equals the count while the count is below 100, also after
\* logger_clear; logger_get_event(index) succeeds exactly when index is below
\* the count, and a refused call leaves the caller's entry as it was
C25_JournalShape ==
    /\ g_count \in 0 .. LOG_MAX_EVENTS
    /\ g_head \in 0 .. (LOG_MAX_EVENTS - 1)
    /\ (g_count < LOG_MAX_EVENTS => g_head = g_count)
    /\ \A index \in C25_Indexes :
         /\ logger_get_event(g_log_initialized, g_log_buffer, g_head, g_count,
                             index).ret <=> index < g_count
         /\ (index >= g_count => C25_EntryAfter(index) = C25_CallerEntry)
         /\ (index < g_count => C25_EntryAfter(index) # C25_CallerEntry)

\* the journal was cleared after the ring had wrapped and holds records again
C25_Witness ==
    /\ logged > LOG_MAX_EVENTS + 20
    /\ appends \in 1 .. (LOG_MAX_EVENTS - 1)
    /\ g_count = appends
    /\ g_head = g_count
    /\ DOMAIN g_log_buffer = 0 .. (LOG_MAX_EVENTS - 1)

(***************************************************************************)
(* Buttons: the short press                                                *)
(***************************************************************************)
\* press k of button b is the last press so far, it started a press
\* sequence, was short, and has been released
C28_LoneShort(b, log, gl) ==
    /\ Len(log) >= 1
    /\ log[Len(log)].rel >= 0
    /\ log[Len(log)].rel - log[Len(log)].start < g_config.long_press_ms
    /\ \/ Len(log) = 1
       \/ \E i \in 1 .. Len(gl) :
            log[Len(log) - 1].rel <= gl[i].t /\ gl[i].t < log[Len(log)].start

\* the point from which the short gesture is due
C28_Due(log) == log[Len(log)].rel + g_config.double_press_ms

\* C28: after a short debounced press is released and no second press of the
\* button follows, exactly one SHORT gesture is emitted for it: none for the
\* button before double_press_ms (300 ms) have passed since the recorded
\* release, and the SHORT one by the first buttons_update call at or after
\* that point, after which press_count = 0 and pending_event = FALSE.
C28_ShortPress ==
    /\ [](\A b \in Buttons :
            C28_LoneShort(b, plog[b], glog[b]) =>
              /\ g_state[b].release_time_ms = plog[b][Len(plog[b])].rel
              /\ (now < C28_Due(plog[b]) =>
                    /\ GesturesIn(b, plog[b][Len(plog[b])].start, now + 1) = <<>>
                    /\ g_state[b].pending_event
                    /\ g_state[b].press_count = 1)
              /\ (now >= C28_Due(plog[b]) =>
                    /\ Len(GesturesIn(b, plog[b][Len(plog[b])].start, now + 1)) = 1
                    /\ GesturesIn(b, plog[b][Len(plog[b])].start, now + 1)[1].gesture
                         = GESTURE_SHORT
                    /\ g_state[b].press_count = 0
                    /\ ~g_state[b].pending_event))
    /\ [][\A b \in Buttons :
            ( /\ C28_LoneShort(b, plog[b], glog[b])
              /\ plog'[b] = plog[b]
              /\ now < C28_Due(plog[b])
              /\ now' >= C28_Due(plog[b]) )
            => /\ glog'[b] = Append(glog[b], [gesture |-> GESTURE_SHORT, t |-> now'])
               /\ g_state'[b].press_count = 0
               /\ ~g_state'[b].pending_event]_vars

\* a short press on its own, its SHORT gesture emitted exactly
\* double_press_ms after the release
C28_Witness ==
    \E b \in Buttons :
      /\ Len(plog[b]) = 1
      /\ IsShort(plog[b][1])
      /\ Len(glog[b]) = 1
      /\ glog[b][1] = [gesture |-> GESTURE_SHORT,
                       t |-> plog[b][1].rel + g_config.double_press_ms]
      /\ now = glog[b][1].t
      /\ g_state[b].press_count = 0
      /\ ~g_state[b].pending_event

(***************************************************************************)
(* logger_build_features on its own: SpecFeatures                          *)
(***************************************************************************)
\* clock values tried, up to the last value before the wrap
FeatureClocks == {0, 1000, 299999, 600000, ClockWrap - 1}

\* the InteractionStats tried: timestamps on both sides of the clock value,
\* uint16_t counts up to 65535, spam scores within the range clamp01 keeps
FeatureStats ==
    { [core_state_stats_init EXCEPT !.last_interaction_ms = li,
                                    !.ignore_start_ms = ig,
                                    !.feed_count_5m = fc,
                                    !.pet_count_5m = pc5,
                                    !.spam_score = sp] :
        li \in {0, 1, 300000, 600001, ClockWrap - 1},
        ig \in {0, 1, 300000, ClockWrap - 1},
        fc \in {0, 7, 10, 11, 65535}, pc5 \in {0, 10, 65535},
        sp \in {0, 450000, One} }

\* logger_build_features(&g_current_features, &g_pet_state,
\* &g_interaction_stats, now)
BuildFeatures ==
    /\ steps = 0
    /\ steps' = 1
    /\ \E tod \in TimesOfDay :
         g_current_features' =
           logger_build_features(g_pet_state, g_interaction_stats, now, tod)
    /\ UNCHANGED <<now, needsVars, buttonVars, g_weights, g_custom_model_loaded,
                   g_model_version, g_use_fallback_brain, g_brain_output,
                   learnVars, logVars, last_ret, ref_call, sysVars>>

InitFeatures ==
    /\ steps = 0
    /\ now \in FeatureClocks
    /\ g_pet_state \in NeedsStarts
    /\ g_interaction_stats \in FeatureStats
    /\ last_action = ACTION_IDLE
    /\ BootSys
    /\ BootButtons
    /\ BootEngine

NextFeatures == BuildFeatures

SpecFeatures == InitFeatures /\ [][NextFeatures]_vars

\* milliseconds from stamp to the clock value, on the wrapping clock
C29_Elapsed(stamp) == IF now >= stamp THEN now - stamp ELSE ClockWrap - (stamp - now)

\* min(1, ms / (1000 * seconds)), in millionths
C29_Ratio(ms, seconds) ==
    IF ms >= 1000 * seconds THEN One ELSE (ms * (One \div 1000)) \div seconds

C29_Unit(x) == 0 <= x /\ x <= One

C23_RejectedUploadKeepsState ==
    [][( /\ model_io'.path = "upload"
         /\ model_io'.checked
         /\ model_io'.match
         /\ model_io'.size < expected_size + 4
         /\ model_io'.loads = <<LoadCall("upload", model_io'.data,
                                         model_io'.size, FALSE)>> )
       => UNCHANGED <<g_weights, g_custom_model_loaded, g_model_version,
                      g_use_fallback_brain, model_prefs, model_file>>]_vars

(***************************************************************************)
(* Web server: set-time and set-name requests, SpecWeb                     *)
(***************************************************************************)
MaxRequests == 3

\* milliseconds between two requests
RequestGaps == {1000, 45000000}

\* bodies of POST /api/time: none, not JSON, or a document whose "hour"
\* (-1 when absent) and "minute" (0 when absent) are read as int
TimeRequests ==
    { [body |-> "none", hour |-> -1, minute |-> 0],
      [body |-> "invalid", hour |-> -1, minute |-> 0] }
      \cup { [body |-> "json", hour |-> h, minute |-> m] :
               h \in {-1, 7, 23, 24}, m \in {-1, 59, 60} }
      \cup { [body |-> "json", hour |-> 256, minute |-> 0] }

\* bodies of POST /api/pet/name: the "name" read ("" when absent)
NameRequests ==
    { [body |-> "none", name |-> <<>>], [body |-> "invalid", name |-> <<>>] }
      \cup { [body |-> "json", name |-> NameOf(n)] :
               n \in {0, PET_NAME_MAX_LEN, PET_NAME_MAX_LEN + 1} }

\* handle_api_time_post
HandleApiTimePost ==
    /\ steps < MaxRequests
    /\ \E gap \in RequestGaps, req \in TimeRequests, opened \in BOOLEAN :
         LET ok == req.body = "json" /\ TimeArgsValid(req.hour, req.minute)
             r == time_set(g_boot_time_ms, req.hour % 256, req.minute % 256,
                           now + gap, opened, time_prefs)
         IN  /\ now' = now + gap
             /\ g_time_offset_ms' = IF ok THEN r.offset_ms ELSE g_time_offset_ms
             /\ g_time_set' = IF ok THEN r.set ELSE g_time_set
             /\ time_prefs' = IF ok THEN r.prefs ELSE time_prefs
             /\ last_ret' = [op |-> "handle_api_time_post",
                             ret |-> IF ok THEN 200 ELSE 400, req |-> req]
    /\ steps' = steps + 1
    /\ UNCHANGED <<needsVars, buttonVars, brainVars, learnVars, logVars, care,
                   learn_prefs, bootVars, loopVars, g_boot_time_ms, g_identity,
                   pet_id_prefs>>

\* handle_api_pet_name_post
HandleApiPetNamePost ==
    /\ steps < MaxRequests
    /\ \E gap \in RequestGaps, req \in NameRequests, opened \in BOOLEAN :
         LET ok == req.body = "json" /\ NameValid(req.name)
             r == pet_identity_set_name(g_identity, pet_id_prefs, req.name,
                                        opened)
         IN  /\ now' = now + gap
             /\ g_identity' = IF ok THEN r.identity ELSE g_identity
             /\ pet_id_prefs' = IF ok THEN r.prefs ELSE pet_id_prefs
             /\ last_ret' = [op |-> "handle_api_pet_name_post",
                             ret |-> IF ~ok THEN 400
                                     ELSE IF r.ret THEN 200 ELSE 500,
                             req |-> req]
    /\ steps' = steps + 1
    /\ UNCHANGED <<needsVars, buttonVars, brainVars, learnVars, logVars, care,
                   learn_prefs, bootVars, loopVars, g_boot_time_ms,
                   g_time_offset_ms, g_time_set, time_prefs>>

\* setup() done: time_init and pet_identity_init have read what NVS holds
InitWeb ==
    /\ now = 0
    /\ steps = 0
    /\ BootNeeds
    /\ BootButtons
    /\ BootEngine
    /\ care = NoCare
    /\ learn_prefs = NoLearnPrefs
    /\ pc = "loop"
    /\ g_storage_initialized = TRUE
    /\ model_prefs = NoModelPrefs
    /\ model_file = NoModelFile
    /\ embedded = NoEmbedded
    /\ g_model_callback = TRUE
    /\ uploads = 0
    /\ boots = 0
    /\ model_io = NoModelIo
    /\ BootLoop
    /\ g_boot_time_ms = 0
    /\ time_prefs \in {NoTimePrefs, [offset |-> 43200000, set |-> TRUE]}
    /\ g_time_offset_ms = time_prefs.offset
    /\ g_time_set = time_prefs.set
    /\ pet_id_prefs \in {<<>>, NameOf(3)}
    /\ g_identity = [name |-> IF Len(pet_id_prefs) > 0 THEN pet_id_prefs
                              ELSE DefaultName]

NextWeb ==
    \/ HandleApiTimePost
    \/ HandleApiPetNamePost

SpecWeb == InitWeb /\ [][NextWeb]_vars

\* C22: a set-time request with hour outside 0..23 or minute outside 0..59,
\* and a set-name request with an empty name or a name longer than 24
\* characters, is rejected with a failure indicator and leaves the stored
\* time offset, respectively the stored pet name (in memory and persisted),
\* unchanged.
C22_InvalidRequestsRejected ==
    [][/\ ( /\ last_ret'.op = "handle_api_time_post"
            /\ steps' = steps + 1
            /\ \/ last_ret'.req.hour \notin 0 .. 23
               \/ last_ret'.req.minute \notin 0 .. 59 )
          => /\ last_ret'.ret = 400
             /\ UNCHANGED <<g_time_offset_ms, g_time_set, time_prefs>>
       /\ ( /\ last_ret'.op = "handle_api_pet_name_post"
            /\ steps' = steps + 1
            /\ \/ Len(last_ret'.req.name) = 0
               \/ Len(last_ret'.req.name) > 24 )
          => /\ last_ret'.ret = 400
             /\ UNCHANGED <<g_identity, pet_id_prefs>>]_vars

\* the time was set to 07:59 and the pet renamed; then a request for 24:00
\* was answered 400
C22_Witness ==
    /\ steps = 3
    /\ last_ret.op = "handle_api_time_post"
    /\ last_ret.req.hour = 24
    /\ last_ret.ret = 400
    /\ g_time_set
    /\ time_prefs.set
    /\ (g_time_offset_ms + 45001000) % DayMs = 7 * 3600000 + 59 * 60000
    /\ g_identity.name = NameOf(PET_NAME_MAX_LEN)
    /\ pet_id_prefs = NameOf(PET_NAME_MAX_LEN)

(***************************************************************************)
(* main.cpp: loop(), iteration by iteration (SpecLoop)                     *)
(***************************************************************************)
TICK_INTERVAL_MS == 2000
SAVE_INTERVAL_MS == 60000
BUTTON_POLL_MS == 10
SLEEP_HOLD_TIME_MS == 3000

\* loop() iterations of one run, and changes of the raw button levels
MaxIterations == 5
MaxLevelChanges == 2

\* milliseconds from one loop() iteration to the next: a slow iteration, a
\* tick interval, a save interval
LoopGaps == {50, TICK_INTERVAL_MS, SAVE_INTERVAL_MS}

\* milliseconds by which millis() read in on_button_event is ahead of the
\* value loop() read at its top
LoopSkews == {0, 1}

\* what the owner does in a run: works the feed button (line BUTTON_FEED),
\* or grips both buttons at once (line BUTTON_PET)
LoopLevels(line) ==
    { [b \in Buttons |-> FALSE],
      [b \in Buttons |-> b = BUTTON_FEED \/ line = BUTTON_PET] }

\* time_get_features, to the nearest of 06:00 and 12:00
TimeOfDay(offset_ms) ==
    IF offset_ms < 32400000 THEN [sin |-> One, cos |-> 0]
    ELSE [sin |-> 0, cos |-> 0 - One]

\* storage_save_state, storage_save_interaction_stats, storage_save_stats
storage_save(initialized, prefs, key, value) ==
    IF initialized THEN [prefs EXCEPT ![key] = [saved |-> TRUE, value |-> value]]
    ELSE prefs

\* online_learn_save(), Preferences::begin giving opened
online_learn_save(initialized, prefs, biases, total, opened) ==
    IF initialized /\ opened
      THEN [saved |-> TRUE, biases |-> biases, count |-> total]
      ELSE prefs

\* g_pet_stats.total_feeds and total_pets after on_button_event(event)
CountGesture(stats, event) ==
    LET n == IF event.gesture = GESTURE_SHORT THEN 1
             ELSE IF event.gesture = GESTURE_LONG THEN 2 ELSE 0
    IN  IF event.button = BUTTON_FEED
          THEN [stats EXCEPT !.total_feeds = @ + n]
          ELSE [stats EXCEPT !.total_pets = @ + n]

\* mutant: the periodic save runs at every tick interval
SaveDue_tick(t) == Sub32(t, g_last_save_ms) >= TICK_INTERVAL_MS

\* "Periodic save"
SaveDue(t) == Sub32(t, g_last_save_ms) >= SAVE_INTERVAL_MS

\* "State tick"
TickDue(t) == Sub32(t, g_last_tick_ms) >= TICK_INTERVAL_MS

\* mutant: the indicator threshold is taken for the hold time
HoldDone_early(held_time) == held_time > 500

\* "Both buttons held for 3 seconds - enter sleep mode"
HoldDone(held_time) == held_time >= SLEEP_HOLD_TIME_MS

\* the calls of the two saving blocks of loop()
SaveCalls(phase) ==
    << [fn |-> "storage_save_state", phase |-> phase],
       [fn |-> "storage_save_interaction_stats", phase |-> phase],
       [fn |-> "storage_save_stats", phase |-> phase] >>

\* one iteration of loop(): millis() reads now + gap at its top and
\* now + gap + skew in on_button_event, digitalRead returns raw, and
\* Preferences::begin of the learner gives opened
\* loop(), lines 277-327: button polling with the callbacks it runs, and the
\* sleep trigger
LoopPoll(gap, raw, skew) ==
    LET t == now + gap
        tod == TimeOfDay(g_time_offset_ms)
        \* "Button polling"
        polled == Sub32(t, g_last_button_ms) >= BUTTON_POLL_MS
        res == [b \in Buttons |->
                  IF polled THEN ButtonStep(g_state[b], raw[b], t)
                  ELSE [st |-> g_state[b], ev |-> <<>>]]
        evs == EventsOf(res, t)
        m1 == IF Len(evs) >= 1
                THEN on_button_event(MainState, evs[1], g_brain_output, t + skew, tod)
                ELSE MainState
        ps0 == IF Len(evs) >= 1 THEN CountGesture(g_pet_stats, evs[1])
               ELSE g_pet_stats
        \* "Check for sleep trigger: both buttons held for 3+ seconds"
        both == /\ polled
                /\ res[BUTTON_FEED].st.current_state
                /\ res[BUTTON_PET].st.current_state
        start == IF ~polled THEN g_both_buttons_start_ms
                 ELSE IF ~both THEN 0
                 ELSE IF g_both_buttons_start_ms = 0 THEN t
                 ELSE g_both_buttons_start_ms
    IN  [t |-> t, tod |-> tod, polled |-> polled, both |-> both,
         events |-> evs,
         buttons |-> [b \in Buttons |-> res[b].st],
         start |-> start,
         sleep |-> both /\ HoldDone(Sub32(t, start)),
         m |-> IF Len(evs) >= 2
                 THEN on_button_event(m1, evs[2], g_brain_output, t + skew, tod)
                 ELSE m1,
         pet_stats |-> IF Len(evs) >= 2 THEN CountGesture(ps0, evs[2]) ELSE ps0]

\* loop(), lines 331-381: the state tick of the iteration whose polling
\* left p
LoopTickStage(p) ==
    LET tick == ~p.sleep /\ TickDue(p.t)
        tk == StateTick(p.m, g_brain_output, p.t, Sub32(p.t, g_last_tick_ms),
                        p.tod)
        pet3 == IF tick THEN tk.pet ELSE p.m.pet
        starving == tick /\ pet3.hunger >= 990000
    IN  [tick |-> tick,
         pet |-> pet3,
         stats |-> IF tick THEN tk.stats ELSE p.m.stats,
         features |-> IF tick THEN tk.features ELSE p.m.features,
         output |-> IF tick THEN TickOutput(tk.features) ELSE g_brain_output,
         ignored |-> tick /\ tk.ignored,
         log_buffer |-> IF tick THEN tk.log.buffer ELSE p.m.log_buffer,
         head |-> IF tick THEN tk.log.head ELSE p.m.head,
         count |-> IF tick THEN tk.log.count ELSE p.m.count,
         appended |-> (p.m.appends - appends)
                        + (IF tick /\ tk.ignored THEN 1 ELSE 0),
         starving |-> starving,
         pet_stats |-> IF tick
                         THEN [p.pet_stats EXCEPT
                                 !.max_trust_reached = Max(@, pet3.trust \div 1000),
                                 !.times_starved = IF starving /\ ~was_starving
                                                     THEN @ + 1 ELSE @]
                         ELSE p.pet_stats]

\* loop(), lines 311-322 and 393-406: "Save all state before sleep" and the
\* "Periodic save" of the iteration whose polling left p and whose tick left k
LoopSaveStage(p, k, opened) ==
    LET save == ~p.sleep /\ SaveDue(p.t)
        saving == p.sleep \/ save
        ps3 == IF saving
                 THEN [k.pet_stats EXCEPT !.last_save_timestamp = p.t \div 1000]
               ELSE k.pet_stats
        ap == online_learn_apply(g_learn_initialized, g_action_biases,
                                 p.m.learn_buffer)
        biases3 == IF save THEN ap.biases ELSE g_action_biases
    IN  [save |-> save,
         learn_buffer |-> IF save THEN ap.buffer ELSE p.m.learn_buffer,
         biases |-> biases3,
         pet_stats |-> ps3,
         pet_prefs |-> IF saving
                         THEN storage_save(g_storage_initialized,
                                storage_save(g_storage_initialized,
                                  storage_save(g_storage_initialized, pet_prefs,
                                               "state", k.pet),
                                  "interaction", k.stats),
                                "stats", ps3)
                         ELSE pet_prefs,
         learn_prefs |-> IF saving
                           THEN online_learn_save(g_learn_initialized,
                                                  learn_prefs, biases3,
                                                  p.m.total, opened)
                           ELSE learn_prefs,
         calls |-> IF p.sleep
                     THEN SaveCalls("sleep")
                            \o << [fn |-> "online_learn_save", phase |-> "sleep"],
                                  [fn |-> "sleep_request", phase |-> "sleep"] >>
                   ELSE IF save
                     THEN SaveCalls("save")
                            \o << [fn |-> "online_learn_apply", phase |-> "save"],
                                  [fn |-> "online_learn_save", phase |-> "save"] >>
                   ELSE <<>>]

\* one iteration of loop(): what its three parts leave
LoopBody(p, k, v) ==
    [t |-> p.t, polled |-> p.polled, both |-> p.both, events |-> p.events,
     buttons |-> p.buttons, start |-> p.start, sleep |-> p.sleep,
     tick |-> k.tick, save |-> v.save,
     pet0 |-> p.m.pet, stats0 |-> p.m.stats,
     pet |-> k.pet, stats |-> k.stats, features |-> k.features,
     output |-> k.output, ignored |-> k.ignored,
     log_buffer |-> k.log_buffer, head |-> k.head, count |-> k.count,
     appended |-> k.appended,
     learn_buffer |-> v.learn_buffer, total |-> p.m.total,
     biases |-> v.biases, pet_stats |-> v.pet_stats,
     starving |-> k.starving,
     pet_prefs |-> v.pet_prefs, learn_prefs |-> v.learn_prefs,
     calls |-> v.calls]

\* loop(), in a run of at most `iterations` iterations with at most `changes`
\* changes of the raw levels
LoopWith(gaps, skews, iterations, changes) ==
    /\ pc = "loop"
    /\ steps < iterations
    /\ \E gap \in gaps, raw \in LoopLevels(active_line),
          skew \in skews, opened \in BOOLEAN :
         \E p \in {LoopPoll(gap, raw, skew)} :
         \E k \in {LoopTickStage(p)} :
         \E v \in {LoopSaveStage(p, k, opened)} :
         \E r \in {LoopBody(p, k, v)} :
           LET changed == raw[BUTTON_FEED] # g_state[BUTTON_FEED].last_raw_state
               touch == r.events # <<>>
           IN  \* the choices that no call of the iteration reads are fixed
               /\ (r.events = <<>> => skew = 0)
               /\ (~(r.sleep \/ r.save) => opened)
               /\ watch.changes + (IF changed THEN 1 ELSE 0) <= changes
               /\ now' = r.t
               /\ g_last_button_ms' = IF r.polled THEN r.t ELSE g_last_button_ms
               /\ g_state' = r.buttons
               /\ emitted' = r.events
               /\ cb_calls' = r.events
               /\ g_both_buttons_start_ms' = r.start
               /\ g_last_tick_ms' = IF r.tick THEN r.t ELSE g_last_tick_ms
               /\ g_last_save_ms' = IF r.save THEN r.t ELSE g_last_save_ms
               /\ g_pet_state' = r.pet
               /\ g_interaction_stats' = r.stats
               /\ last_action' = IF r.tick THEN g_brain_output.action_id
                                 ELSE last_action
               /\ g_current_features' = r.features
               /\ g_brain_output' = r.output
               /\ g_log_buffer' = r.log_buffer
               /\ g_head' = r.head
               /\ g_count' = r.count
               /\ appends' = appends + r.appended
               /\ logged' = logged + r.appended
               /\ g_learn_buffer' = r.learn_buffer
               /\ g_total_rewards' = r.total
               /\ g_action_biases' = r.biases
               /\ g_pet_stats' = r.pet_stats
               /\ was_starving' = (was_starving \/ r.starving)
               /\ pet_prefs' = r.pet_prefs
               /\ learn_prefs' = r.learn_prefs
               /\ pc' = IF r.sleep THEN "sleep" ELSE "loop"
               /\ iter' = [t |-> r.t, polled |-> r.polled, both |-> r.both,
                           events |-> r.events, skew |-> skew,
                           sleep |-> r.sleep, tick |-> r.tick,
                           prev_tick_ms |-> g_last_tick_ms,
                           pet0 |-> r.pet0, stats0 |-> r.stats0,
                           ignored |-> r.ignored, save |-> r.save,
                           prev_save_ms |-> g_last_save_ms,
                           opened |-> opened, calls |-> r.calls]
               /\ watch' = [touched |-> watch.touched \/ touch,
                            touch_ms |-> IF touch THEN r.t + skew
                                         ELSE watch.touch_ms,
                            ignores |-> (IF touch THEN 0 ELSE watch.ignores)
                                          + (IF r.ignored THEN 1 ELSE 0),
                            hold_ms |-> IF ~r.polled THEN watch.hold_ms
                                        ELSE IF ~r.both THEN -1
                                        ELSE IF watch.hold_ms >= 0
                                          THEN watch.hold_ms
                                        ELSE r.t,
                            changes |-> watch.changes
                                          + (IF changed THEN 1 ELSE 0)]
               /\ last_ret' = [op |-> "loop", ret |-> r.sleep]
    /\ steps' = steps + 1
    /\ UNCHANGED <<g_has_pending_event, g_pending_event, g_callback, active_line,
                   obs, plog, glog, g_weights, g_custom_model_loaded,
                   g_model_version, g_use_fallback_brain, ref_call,
                   g_learn_initialized, g_log_initialized, care,
                   g_storage_initialized, model_prefs, model_file, embedded,
                   g_model_callback, uploads, boots, model_io, webVars, scan,
                   swapVars>>

\* loop()
Loop == LoopWith(LoopGaps, LoopSkews, MaxIterations, MaxLevelChanges)

\* a PetState storage_load_state can find: the pet was left awake until its
\* energy ran out
Exhausted == [core_state_init EXCEPT !.energy = 0, !.hunger = 600000]

\* millis() when setup() sets the three timers and returns
SetupMs == 1500

\* the devices at the first loop(): whether storage_init succeeded, the
\* PetState setup() loaded, the time of day set, what the owner does
LoopSetups ==
    { [mounted |-> TRUE, pet |-> core_state_init, offset |-> 21600000,
       line |-> BUTTON_FEED],
      [mounted |-> TRUE, pet |-> Exhausted, offset |-> 43200000,
       line |-> BUTTON_PET],
      [mounted |-> FALSE, pet |-> core_state_init, offset |-> 0,
       line |-> BUTTON_PET] }

InitLoop ==
    /\ now = SetupMs
    /\ steps = 0
    /\ BootEngine
    /\ care = NoCare
    /\ learn_prefs = NoLearnPrefs
    /\ pc = "loop"
    /\ model_prefs = NoModelPrefs
    /\ model_file = NoModelFile
    /\ embedded = NoEmbedded
    /\ g_model_callback = TRUE
    /\ uploads = 0
    /\ boots = 0
    /\ model_io = NoModelIo
    /\ g_state = [b \in Buttons |-> ButtonStateInit]
    /\ g_has_pending_event = FALSE
    /\ g_pending_event = NoEvent
    /\ g_callback = TRUE
    /\ cb_calls = <<>>
    /\ emitted = <<>>
    /\ obs = [b \in Buttons |-> ObsInit]
    /\ plog = [b \in Buttons |-> <<>>]
    /\ glog = [b \in Buttons |-> <<>>]
    /\ g_interaction_stats = core_state_stats_init
    /\ last_action = ACTION_IDLE
    /\ g_boot_time_ms = 0
    /\ g_identity = [name |-> DefaultName]
    /\ pet_id_prefs = <<>>
    /\ g_last_button_ms = SetupMs
    /\ g_last_tick_ms = SetupMs
    /\ g_last_save_ms = SetupMs
    /\ g_both_buttons_start_ms = 0
    /\ g_pet_stats = FirstPetStats
    /\ was_starving = FALSE
    /\ iter = NoIter
    /\ watch = NoWatch
    /\ scan = ScanIdle
    /\ BootSwap
    /\ \E dev \in LoopSetups :
         /\ g_storage_initialized = dev.mounted
         /\ g_pet_state = dev.pet
         /\ pet_prefs = IF dev.pet = core_state_init THEN NoPetPrefs
                        ELSE [NoPetPrefs EXCEPT
                                !.state = [saved |-> TRUE, value |-> dev.pet]]
         /\ time_prefs = [offset |-> dev.offset, set |-> dev.offset # 0]
         /\ g_time_offset_ms = dev.offset
         /\ g_time_set = (dev.offset # 0)
         /\ active_line = dev.line

NextLoop == Loop

SpecLoop == InitLoop /\ [][NextLoop]_vars

(***************************************************************************)
(* loop(): claims                                                          *)
(***************************************************************************)
\* C21: the persistence writes of PetState, InteractionStats, pet stats and
\* learner biases happen only on the 60-second save boundary or immediately
\* before deep sleep: an iteration changes what NVS holds of them only when
\* 60 s have passed since the last periodic save or when it ends in
\* sleep_request, and an iteration that runs a state tick or a gesture
\* handler off that boundary leaves all of it as it was.
C21_SavesOffTheTickPath ==
    [][/\ (pet_prefs' # pet_prefs \/ learn_prefs' # learn_prefs)
            => \/ now' - g_last_save_ms >= SAVE_INTERVAL_MS
               \/ iter'.sleep /\ pc' = "sleep"
       /\ ( /\ iter'.tick \/ iter'.events # <<>>
            /\ now' - g_last_save_ms < SAVE_INTERVAL_MS
            /\ ~iter'.sleep )
            => UNCHANGED <<pet_prefs, learn_prefs>>]_vars

\* after a periodic save, an iteration off the save boundary handled a
\* gesture and ran a tick, and NVS still holds the PetState saved before
C21_Witness ==
    /\ iter.tick
    /\ iter.events # <<>>
    /\ ~iter.save
    /\ ~iter.sleep
    /\ g_last_save_ms >= SAVE_INTERVAL_MS
    /\ pet_prefs.state.saved
    /\ pet_prefs.state.value # g_pet_state
    /\ pet_prefs.stats.value.total_feeds # g_pet_stats.total_feeds

\* both buttons were debounced-pressed at every poll since the hold timer
\* started, and that was 3000 ms ago or more
C24_HeldLongEnough ==
    /\ iter'.polled
    /\ iter'.both
    /\ g_both_buttons_start_ms' > 0
    /\ watch'.hold_ms >= 0
    /\ watch'.hold_ms <= g_both_buttons_start_ms'
    /\ now' - g_both_buttons_start_ms' >= 3000

\* NVS holds the PetState, InteractionStats and pet stats of this moment
C24_StateSaved ==
    /\ pet_prefs'.state = [saved |-> TRUE, value |-> g_pet_state']
    /\ pet_prefs'.interaction = [saved |-> TRUE, value |-> g_interaction_stats']
    /\ pet_prefs'.stats = [saved |-> TRUE, value |-> g_pet_stats']

\* NVS holds the learner biases of this moment
C24_BiasesSaved ==
    learn_prefs' = [saved |-> TRUE, biases |-> g_action_biases',
                    count |-> g_total_rewards']

\* C24 as stated: deep sleep is requested only at a button poll where both
\* buttons have been debounced-pressed at every poll for at least 3000 ms
\* since the hold timer started, and PetState, InteractionStats, pet stats
\* and learner biases are all saved before sleep_request is called; any poll
\* at which either button is not pressed resets the hold timer.
C24_SleepAfterHoldAndSave ==
    [][/\ iter'.sleep =>
            C24_HeldLongEnough /\ C24_StateSaved /\ C24_BiasesSaved
       /\ (iter'.polled /\ ~iter'.both) => g_both_buttons_start_ms' = 0]_vars

\* C24 amended: deep sleep is requested only at a button poll where both
\* buttons have been debounced-pressed at every poll for at least 3000 ms
\* since the hold timer started, and the four saves are called before
\* sleep_request, in the order PetState, InteractionStats, pet stats, learner
\* biases; the first three write their data when storage_init had succeeded
\* and the last when the learner's NVS namespace opens, and otherwise they
\* write nothing and sleep is requested all the same; any poll at which
\* either button is not pressed resets the hold timer.
C24_SleepAfterHoldAndSaveCalls ==
    [][/\ iter'.sleep =>
            /\ C24_HeldLongEnough
            /\ iter'.calls = SaveCalls("sleep")
                 \o << [fn |-> "online_learn_save", phase |-> "sleep"],
                       [fn |-> "sleep_request", phase |-> "sleep"] >>
            /\ IF g_storage_initialized THEN C24_StateSaved
               ELSE pet_prefs' = pet_prefs
            /\ IF iter'.opened THEN C24_BiasesSaved
               ELSE learn_prefs' = learn_prefs
            /\ pc' = "sleep"
       /\ (iter'.polled /\ ~iter'.both) => g_both_buttons_start_ms' = 0]_vars

\* sleep was requested 4000 ms after the hold began, with everything in NVS
C24_Witness ==
    /\ pc = "sleep"
    /\ iter.sleep
    /\ now - g_both_buttons_start_ms = 4000
    /\ g_storage_initialized
    /\ pet_prefs.state = [saved |-> TRUE, value |-> g_pet_state]
    /\ pet_prefs.stats.value.last_save_timestamp = now \div 1000
    /\ learn_prefs.saved

\* C26: the ignore start timestamp becomes nonzero, and an ignore event is
\* journaled, only at a tick at which more than 300 seconds have really
\* elapsed since the most recent interaction with no interaction in between
\* (also when a gesture is handled in the same loop() iteration as the
\* tick); it is journaled at most once between two consecutive interactions,
\* and every feed or pet gesture event clears the timestamp to zero.
C26_IgnoreAfterFiveMinutes ==
    [][/\ ( \/ g_interaction_stats'.ignore_start_ms
                 \notin {0, g_interaction_stats.ignore_start_ms}
            \/ iter'.ignored )
          => /\ iter'.tick
             /\ watch'.touched
             /\ now' - watch'.touch_ms > 300000
       /\ watch'.ignores <= 1
       /\ (iter'.events # <<>> /\ steps' = steps + 1)
            => iter'.stats0.ignore_start_ms = 0]_vars

\* the spam score a stats update leaves when it decays the score it found
\* by 0.0005 per millisecond of gap, and not at all for a gap of 60 s or more
C27_Decayed(gap) ==
    IF gap >= 60000 THEN iter'.stats0.spam_score
    ELSE Max(0, iter'.stats0.spam_score - 500 * gap)

\* C27 as stated: each stats update (core_state_update_stats) lowers
\* spamScore linearly in the time elapsed since the previous stats update
\* (0.0005 per millisecond, floored at 0), and applies no reduction at all
\* when the elapsed gap is 60 seconds or more.
C27_DecaySinceLastUpdate ==
    [][(iter'.tick /\ steps' = steps + 1 /\ g_last_tick_ms > SetupMs) =>
          g_interaction_stats'.spam_score = C27_Decayed(now' - g_last_tick_ms)]_vars

\* C27 amended: each stats update (core_state_update_stats) lowers spamScore
\* linearly in the time elapsed since the last interaction, the 32-bit
\* difference current_ms - stats.last_interaction_ms (0.0005 per
\* millisecond of it, floored at 0), and applies no reduction at all when
\* that difference is 0 or is 60 seconds or more.
C27_DecaySinceLastInteraction ==
    [][(iter'.tick /\ steps' = steps + 1) =>
          g_interaction_stats'.spam_score =
            IF now' = iter'.stats0.last_interaction_ms
              THEN iter'.stats0.spam_score
            ELSE IF now' > iter'.stats0.last_interaction_ms
              THEN C27_Decayed(now' - iter'.stats0.last_interaction_ms)
            ELSE C27_Decayed(ClockWrap - (iter'.stats0.last_interaction_ms - now'))]_vars

\* a tick 2000 ms after a long feed press and 2050 ms after the tick before
\* it took the spam score from 0.3 to 0
C27_Witness ==
    /\ iter.tick
    /\ iter.stats0.spam_score = 300000
    /\ g_interaction_stats.spam_score = 0
    /\ now - iter.stats0.last_interaction_ms = 2000
    /\ now - iter.prev_tick_ms = 2050

\* the order of a tick: the needs update runs on the decision the tick
\* found, which only a tick replaces and which is idle before the first
\* one; the new decision is inferred from the features of the updated state
C30_TickOrder ==
    /\ ~iter'.tick => g_brain_output' = g_brain_output
    /\ (iter'.tick /\ g_last_tick_ms = SetupMs) => g_brain_output.action_id = ACTION_IDLE
    /\ iter'.tick =>
         /\ g_pet_state' = core_state_update(iter'.pet0, g_state_config,
                                             now' - g_last_tick_ms,
                                             g_brain_output.action_id)
         /\ g_current_features' =
              logger_build_features(g_pet_state', g_interaction_stats', now',
                                    TimeOfDay(g_time_offset_ms))
         /\ g_brain_output' = TickOutput(g_current_features')

\* C30 as stated: at each tick the needs update uses the action of the
\* decision produced by the previous tick (idle before the first tick),
\* and the new decision is computed afterwards from features built from the
\* post-update state; over a tick energy does not decrease if and only if
\* that previous action is sleep.
C30_PreviousActionDrivesEnergy ==
    [][(steps' = steps + 1) =>
         /\ C30_TickOrder
         /\ iter'.tick =>
              (g_pet_state'.energy >= iter'.pet0.energy
                 <=> g_brain_output.action_id = ACTION_SLEEP)]_vars

\* C30 amended: ...; over a tick energy does not decrease if and only if
\* that previous action is sleep or energy is already 0.
C30_PreviousActionOrEmptyDrivesEnergy ==
    [][(steps' = steps + 1) =>
         /\ C30_TickOrder
         /\ iter'.tick =>
              (g_pet_state'.energy >= iter'.pet0.energy
                 <=> \/ g_brain_output.action_id = ACTION_SLEEP
                     \/ iter'.pet0.energy = 0)]_vars

\* a tick that ran on the sleep decision of the tick before it and raised
\* the energy
C30_Witness ==
    /\ iter.tick
    /\ iter.prev_tick_ms > SetupMs
    /\ last_action = ACTION_SLEEP
    /\ g_pet_state.energy > iter.pet0.energy

(***************************************************************************)
(* core_state_update: the clamp of the stress                              *)
(***************************************************************************)
\* the delta_ms of a core_state_update that took the hunger, the affection
\* need and the trust from their values in this state to the next ones
C31_Deltas ==
    { d \in DeltaSet :
        /\ g_pet_state'.hunger
             = clamp01(g_pet_state.hunger + PerSecond(g_state_config.hunger_rate, d))
        /\ g_pet_state'.affection_need
             = clamp01(g_pet_state.affection_need
                       + PerSecond(g_state_config.affection_decay_rate, d))
        /\ g_pet_state'.trust
             = clamp01(g_pet_state.trust - PerSecond(g_state_config.trust_decay_rate, d)) }

\* the four terms of the stress change of an update over d milliseconds that
\* left the needs p
C31_Decay(d) == 0 - PerSecond(g_state_config.stress_decay_rate, d)
C31_HungerTerm(p, d) ==
    IF p.hunger > 700000
      THEN (MulMicro(PerSecond(500, d), p.hunger - 700000) * 10) \div 3 ELSE 0
C31_EnergyTerm(p, d) ==
    IF p.energy < 200000
      THEN MulMicro(PerSecond(300, d), 200000 - p.energy) * 5 ELSE 0
C31_AffectionTerm(p, d) ==
    IF p.affection_need > 800000 THEN PerSecond(200, d) ELSE 0

\* the terms applied one at a time, with a clamp after each
C31_OneAtATime(stress, p, d) ==
    clamp01(clamp01(clamp01(clamp01(stress + C31_Decay(d))
                            + C31_HungerTerm(p, d))
                    + C31_EnergyTerm(p, d))
            + C31_AffectionTerm(p, d))

\* the terms summed, with one clamp
C31_Summed(stress, p, d) ==
    clamp01(stress + C31_Decay(d) + C31_HungerTerm(p, d) + C31_EnergyTerm(p, d)
            + C31_AffectionTerm(p, d))

\* a step of core_state_update alone
C31_UpdateStep ==
    /\ steps' = steps + 1
    /\ now' = now
    /\ g_interaction_stats' = g_interaction_stats
    /\ C31_Deltas # {}

\* C31 as stated: in a tick, stress is re-clamped to [0,1] after each of its
\* terms is applied (natural decay, hunger penalty, low-energy penalty,
\* affection penalty), so that the stress after the tick equals the result
\* of applying the four terms one at a time with a clamp after each.
C31_StressClampedPerTerm ==
    [][C31_UpdateStep =>
         \E d \in C31_Deltas :
           g_pet_state'.stress = C31_OneAtATime(g_pet_state.stress, g_pet_state', d)]_vars

\* C31 amended: in a tick, stress is clamped to [0,1] once, after its four
\* terms (natural decay, hunger penalty, low-energy penalty, affection
\* penalty) have been added up, so that the stress after the tick equals
\* the clamp of the old stress plus the sum of the four terms.
C31_StressClampedOnce ==
    [][C31_UpdateStep =>
         \E d \in C31_Deltas :
           g_pet_state'.stress = C31_Summed(g_pet_state.stress, g_pet_state', d)]_vars

\* the 2000 ms update of an awake pet whose needs were all 0: the decay and
\* the low-energy penalty cancel and the stress stays 0, where a clamp after
\* the decay would have left the penalty, 0.0006
C31_Witness ==
    /\ steps = 1
    /\ g_pet_state = [hunger |-> 2000, energy |-> 0, affection_need |-> 1000,
                      trust |-> 0, stress |-> 0]
    /\ C31_OneAtATime(0, g_pet_state, 2000) = 600

(***************************************************************************)
(* The poll block of loop(), one button at a time: SpecScan                *)
(*                                                                         *)
(* buttons_update is followed through its for loop: scan is the number of  *)
(* buttons the running call has processed, BUTTON_COUNT once it has        *)
(* returned and the drain loop of loop() is to run, ScanIdle outside the   *)
(* poll block.  emit_event runs the registered callback at once, inside    *)
(* the pass of the button; without a callback it fills the one register,   *)
(* which loop() drains after the call.                                     *)
(***************************************************************************)
MaxScans == 5

ScanGaps == {50, 600}

\* the level digitalRead returns for button b
ScanLevels(b) == { lv[b] : lv \in LoopLevels(active_line) }

RECURSIVE HandleAll(_, _, _, _, _)
\* on_button_event for the events evs[i], evs[i + 1], ..: the main state left
HandleAll(m, evs, i, t, tod) ==
    IF i > Len(evs) THEN m
    ELSE HandleAll(on_button_event(m, evs[i], g_brain_output, t, tod),
                   evs, i + 1, t, tod)

\* loop(), lines 275-280: the poll is due and buttons_update is called
ScanBegin ==
    /\ pc = "loop"
    /\ scan = ScanIdle
    /\ steps < MaxScans
    /\ \E gap \in ScanGaps :
         /\ Sub32(now + gap, g_last_button_ms) >= BUTTON_POLL_MS
         /\ now' = now + gap
    /\ g_last_button_ms' = now'
    /\ scan' = 0
    /\ emitted' = <<>>
    /\ cb_calls' = <<>>
    /\ steps' = steps + 1
    /\ UNCHANGED <<needsVars, g_state, g_has_pending_event, g_pending_event,
                   g_callback, active_line, obs, plog, glog, engineVars, care,
                   learn_prefs, webVars, bootVars, g_last_tick_ms, g_last_save_ms,
                   g_both_buttons_start_ms, g_pet_stats, was_starving, pet_prefs,
                   iter, watch, swapVars>>

\* mutant: the pointer to the ButtonState is taken once, before the loop
PassState_first(i) == g_state[BUTTON_FEED]

\* "ButtonState* state = &g_state[i];"
PassState(i) == g_state[i]

\* buttons_update, lines 62-122: one pass of the for loop, with the
\* on_button_event calls emit_event makes in it
ScanButton ==
    /\ scan < BUTTON_COUNT
    /\ \E raw \in ScanLevels(scan) :
         \E r \in {ButtonStep(PassState(scan), raw, now)} :
         \E evs \in {[i \in 1 .. Len(r.ev) |-> ButtonEvent(scan, r.ev[i], now)]} :
         \E reg \in {EmitAll(g_callback,
                             [pending |-> g_pending_event,
                              has_pending |-> g_has_pending_event,
                              calls |-> cb_calls], evs, 1)} :
         \E m \in {IF g_callback
                     THEN HandleAll(MainState, evs, 1, now,
                                    TimeOfDay(g_time_offset_ms))
                     ELSE MainState} :
           \* the changes of the feed button's level are the bounded ones
           /\ watch.changes + (IF scan = BUTTON_FEED /\ raw # g_state[scan].last_raw_state
                                 THEN 1 ELSE 0) <= MaxLevelChanges
           /\ watch' = [watch EXCEPT
                          !.changes = @ + (IF scan = BUTTON_FEED
                                              /\ raw # g_state[scan].last_raw_state
                                             THEN 1 ELSE 0)]
           /\ g_state' = [g_state EXCEPT ![scan] = r.st]
           /\ hist' = [hist EXCEPT ![scan] = Append(@, [raw |-> raw, t |-> now])]
           /\ glog' = [glog EXCEPT ![scan] = GestureLog(@, r.ev, now)]
           /\ emitted' = emitted \o evs
           /\ cb_calls' = reg.calls
           /\ g_pending_event' = reg.pending
           /\ g_has_pending_event' = reg.has_pending
           /\ g_pet_state' = m.pet
           /\ g_interaction_stats' = m.stats
           /\ g_current_features' = m.features
           /\ g_log_buffer' = m.log_buffer
           /\ g_head' = m.head
           /\ g_count' = m.count
           /\ appends' = m.appends
           /\ logged' = m.logged
           /\ g_learn_buffer' = m.learn_buffer
           /\ g_total_rewards' = m.total
    /\ scan' = scan + 1
    /\ UNCHANGED <<now, steps, last_action, g_callback, active_line, obs, plog,
                   g_weights, g_custom_model_loaded, g_model_version,
                   g_use_fallback_brain, g_brain_output, ref_call,
                   g_action_biases, g_learn_initialized, g_log_initialized,
                   last_ret, care, learn_prefs, webVars, bootVars,
                   g_last_button_ms, g_last_tick_ms, g_last_save_ms,
                   g_both_buttons_start_ms, g_pet_stats, was_starving, pet_prefs,
                   iter, load_pos, load_data, seen, w_before,
                   uploadVars>>

\* loop(), lines 282-286: buttons_update has returned; "Process any pending
\* button events (if not using callback)"
ScanDrain ==
    /\ scan = BUTTON_COUNT
    /\ \E got \in {IF g_has_pending_event THEN <<g_pending_event>> ELSE <<>>} :
         \E m \in {HandleAll(MainState, got, 1, now, TimeOfDay(g_time_offset_ms))} :
           /\ last_ret' = [op |-> "buttons_get_event", ret |-> got]
           /\ g_has_pending_event' = FALSE
           /\ g_pet_state' = m.pet
           /\ g_interaction_stats' = m.stats
           /\ g_current_features' = m.features
           /\ g_log_buffer' = m.log_buffer
           /\ g_head' = m.head
           /\ g_count' = m.count
           /\ appends' = m.appends
           /\ logged' = m.logged
           /\ g_learn_buffer' = m.learn_buffer
           /\ g_total_rewards' = m.total
    /\ scan' = ScanIdle
    /\ UNCHANGED <<now, steps, last_action, g_state, g_pending_event, g_callback,
                   active_line, cb_calls, emitted, obs, plog, glog, g_weights,
                   g_custom_model_loaded, g_model_version, g_use_fallback_brain,
                   g_brain_output, ref_call, g_action_biases, g_learn_initialized,
                   g_log_initialized, care, learn_prefs, webVars, bootVars,
                   g_last_button_ms, g_last_tick_ms, g_last_save_ms,
                   g_both_buttons_start_ms, g_pet_stats, was_starving, pet_prefs,
                   iter, watch, swapVars>>

\* the firmware registers on_button_event (main.cpp:209); the poll block is
\* written for a recognizer without a callback as well
InitScan ==
    /\ now = SetupMs
    /\ steps = 0
    /\ BootEngine
    /\ BootWeb
    /\ BootLoop
    /\ care = NoCare
    /\ learn_prefs = NoLearnPrefs
    /\ pc = "loop"
    /\ g_storage_initialized = TRUE
    /\ model_prefs = NoModelPrefs
    /\ model_file = NoModelFile
    /\ embedded = NoEmbedded
    /\ g_model_callback = TRUE
    /\ uploads = 0
    /\ boots = 0
    /\ model_io = NoModelIo
    /\ g_state = [b \in Buttons |-> ButtonStateInit]
    /\ g_has_pending_event = FALSE
    /\ g_pending_event = NoEvent
    /\ g_callback \in BOOLEAN
    /\ active_line \in Buttons
    /\ cb_calls = <<>>
    /\ emitted = <<>>
    /\ obs = [b \in Buttons |-> ObsInit]
    /\ plog = [b \in Buttons |-> <<>>]
    /\ glog = [b \in Buttons |-> <<>>]
    /\ g_pet_state = core_state_init
    /\ g_interaction_stats = core_state_stats_init
    /\ last_action = ACTION_IDLE

NextScan ==
    \/ ScanBegin
    \/ ScanButton
    \/ ScanDrain

SpecScan == InitScan /\ [][NextScan]_vars

\* a gesture changed the needs, the interaction statistics, the journal or
\* the learner queue in this step
C32_GestureMutation ==
    \/ g_pet_state' # g_pet_state
    \/ g_interaction_stats' # g_interaction_stats
    \/ <<g_log_buffer, g_head, g_count>>' # <<g_log_buffer, g_head, g_count>>
    \/ g_learn_buffer' # g_learn_buffer

\* C32: each stage of a loop iteration completes fully before the next
\* begins: no mutation of the needs, the interaction statistics, the journal
\* or the learner queue caused by a gesture happens before buttons_update
\* has finished processing both buttons for that poll.
C32_ScanCompletesBeforeHandling ==
    [][C32_GestureMutation => scan >= BUTTON_COUNT]_vars

(***************************************************************************)
(* brain_load_weights array by array against the state tick: SpecSwap      *)
(*                                                                         *)
(* loop() runs the state tick and then web_server_loop(), whose            *)
(* handleClient() runs the upload handler, on_model_uploaded and           *)
(* brain_load_weights on the same thread.  pc is "loop" before the poll    *)
(* block, "tick" before the state tick, "web" before web_server_loop(),    *)
(* "load" inside brain_load_weights, "save" before the periodic save.      *)
(***************************************************************************)
\* stages taken in a run: an iteration with a whole upload takes nine
MaxSwapSteps == 12

\* time between two iterations of loop(): a poll period, a save period
SwapGaps == {50, SAVE_INTERVAL_MS}

\* what the poll block of an iteration hands to on_button_event
SwapEvents == {<<>>, <<[button |-> BUTTON_FEED, gesture |-> GESTURE_SHORT]>>}

\* mutant: the decision path runs while brain_load_weights is copying
InferMayRun_anytime(p) == p \in {"tick", "load"}

\* the state tick, and with it brain_infer, runs from loop() only
InferMayRun(p) == p = "tick"

\* loop(), lines 275-327: the poll block, with the gesture it recognizes
SwapPoll ==
    /\ pc = "loop"
    /\ steps < MaxSwapSteps
    /\ \E gap \in SwapGaps, evs \in SwapEvents :
         \E t \in {now + gap} :
         \E got \in {[i \in 1 .. Len(evs) |->
                        ButtonEvent(evs[i].button, evs[i].gesture, t)]} :
         \E m \in {HandleAll(MainState, got, 1, t, TimeOfDay(g_time_offset_ms))} :
           /\ now' = t
           /\ g_last_button_ms' = t
           /\ emitted' = got
           /\ cb_calls' = got
           /\ g_pet_state' = m.pet
           /\ g_interaction_stats' = m.stats
           /\ g_current_features' = m.features
           /\ g_log_buffer' = m.log_buffer
           /\ g_head' = m.head
           /\ g_count' = m.count
           /\ appends' = m.appends
           /\ logged' = m.logged
           /\ g_learn_buffer' = m.learn_buffer
           /\ g_total_rewards' = m.total
           /\ g_pet_stats' = IF got = <<>> THEN g_pet_stats
                             ELSE CountGesture(g_pet_stats, got[1])
           /\ last_ret' = [op |-> IF got = <<>> THEN "buttons_update"
                                  ELSE "on_button_event",
                           ret |-> got # <<>>]
    /\ pc' = "tick"
    /\ steps' = steps + 1
    /\ UNCHANGED <<last_action, g_state, g_has_pending_event, g_pending_event,
                   g_callback, active_line, obs, plog, glog, care, learn_prefs,
                   webVars, g_weights, g_custom_model_loaded, g_model_version,
                   g_use_fallback_brain, g_brain_output, ref_call,
                   g_action_biases, g_learn_initialized, g_log_initialized,
                   g_storage_initialized, model_prefs, model_file, embedded,
                   g_model_callback, uploads, boots, model_io, g_last_tick_ms,
                   g_last_save_ms, g_both_buttons_start_ms, was_starving,
                   pet_prefs, iter, watch, scan, swapVars>>

\* loop(), lines 331-381: the state tick when it is due; brain_infer reads
\* g_weights
SwapTick ==
    /\ InferMayRun(pc)
    /\ \E tick \in {StateTick(MainState, g_brain_output, now,
                              Sub32(now, g_last_tick_ms),
                              TimeOfDay(g_time_offset_ms))} :
         IF TickDue(now)
           THEN /\ g_pet_state' = tick.pet
                /\ last_action' = g_brain_output.action_id
                /\ g_interaction_stats' = tick.stats
                /\ g_current_features' = tick.features
                /\ g_log_buffer' = tick.log.buffer
                /\ g_head' = tick.log.head
                /\ g_count' = tick.log.count
                /\ appends' = IF tick.ignored THEN appends + 1 ELSE appends
                /\ logged' = IF tick.ignored THEN logged + 1 ELSE logged
                /\ \E out \in {TickOutput(tick.features)} : g_brain_output' = out
                /\ g_pet_stats' =
                     [g_pet_stats EXCEPT
                        !.max_trust_reached = Max(@, tick.pet.trust \div 1000),
                        !.times_starved = IF tick.pet.hunger >= 990000
                                             /\ ~was_starving
                                            THEN @ + 1 ELSE @]
                /\ was_starving' = (was_starving \/ tick.pet.hunger >= 990000)
                /\ seen' = IF g_use_fallback_brain THEN seen
                           ELSE [read |-> TRUE, weights |-> g_weights]
                /\ last_ret' = [op |-> IF g_use_fallback_brain
                                         THEN "brain_fallback" ELSE "brain_infer",
                                ret |-> TRUE]
                /\ g_last_tick_ms' = now
           ELSE UNCHANGED <<needsVars, g_current_features, g_log_buffer, g_head,
                            g_count, appends, logged, g_brain_output,
                            g_pet_stats, was_starving, seen, last_ret,
                            g_last_tick_ms>>
    /\ pc' = "web"
    /\ steps < MaxSwapSteps
    /\ steps' = steps + 1
    /\ UNCHANGED <<now, buttonVars, care, learn_prefs, webVars, g_weights,
                   g_custom_model_loaded, g_model_version, g_use_fallback_brain,
                   ref_call, learnVars, g_log_initialized,
                   g_storage_initialized, model_prefs, model_file, embedded,
                   g_model_callback, uploads, boots, model_io,
                   g_last_button_ms, g_last_save_ms, g_both_buttons_start_ms,
                   pet_prefs, iter, watch, scan, load_pos, load_data, w_before, hist,
                   uploadVars>>

\* loop(), lines 393-406: the periodic save when it is due
SwapSave ==
    /\ pc = "save"
    /\ \E opened \in BOOLEAN :
         \E v \in {LoopSaveStage([sleep |-> FALSE, t |-> now, m |-> MainState],
                                 [pet_stats |-> g_pet_stats, pet |-> g_pet_state,
                                  stats |-> g_interaction_stats], opened)} :
           /\ (~v.save => opened)
           /\ g_learn_buffer' = v.learn_buffer
           /\ g_action_biases' = v.biases
           /\ g_pet_stats' = v.pet_stats
           /\ pet_prefs' = v.pet_prefs
           /\ learn_prefs' = v.learn_prefs
           /\ g_last_save_ms' = IF v.save THEN now ELSE g_last_save_ms
           /\ last_ret' = [op |-> "save", ret |-> v.save]
    /\ pc' = "loop"
    /\ steps < MaxSwapSteps
    /\ steps' = steps + 1
    /\ UNCHANGED <<now, needsVars, buttonVars, care, webVars, brainVars,
                   g_total_rewards, g_learn_initialized, logVars,
                   g_storage_initialized, model_prefs, model_file, embedded,
                   g_model_callback, uploads, boots, model_io,
                   g_last_button_ms, g_last_tick_ms, g_both_buttons_start_ms,
                   was_starving, iter, watch, scan, swapVars>>

\* web_server_loop() with no request waiting
SwapNoRequest ==
    /\ pc = "web"
    /\ pc' = "save"
    /\ steps < MaxSwapSteps
    /\ steps' = steps + 1
    /\ UNCHANGED <<now, needsVars, buttonVars, engineVars, care,
                   storeVars, g_storage_initialized, model_prefs, model_file,
                   embedded, g_model_callback, uploads, boots, model_io>>

\* web_server_loop() with a model upload: handle_api_model_post up to the
\* first array copy of brain_load_weights
SwapUpload ==
    /\ pc = "web"
    /\ \E req \in Uploads, outcome \in WriteOutcomes, allocated \in BOOLEAN :
         LET meta == [version |-> VersionOf(req.data), size |-> req.size,
                      crc32 |-> req.crc32]
             sv == storage_save_model(g_storage_initialized, model_prefs,
                                      model_file, req.data, req.size, meta,
                                      outcome)
             success == allocated /\ sv.ret
             called == success /\ g_model_callback
             copying == called /\ ~TooShort(req.size)
         IN  /\ model_prefs' = IF allocated THEN sv.prefs ELSE model_prefs
             /\ model_file' = IF allocated THEN sv.file ELSE model_file
             /\ g_model_version' = IF copying THEN VersionOf(req.data)
                                   ELSE g_model_version
             /\ load_data' = IF called THEN req.data ELSE load_data
             /\ w_before' = IF called THEN g_weights ELSE w_before
             /\ load_pos' = IF copying THEN 0 ELSE load_pos
             /\ pc' = IF copying THEN "load" ELSE "save"
             /\ model_io' = [path |-> "upload", data |-> req.data,
                             size |-> req.size,
                             checked |-> allocated /\ sv.checked,
                             match |-> allocated /\ sv.match,
                             result |-> success,
                             loads |-> IF called
                                         THEN <<LoadCall("upload", req.data,
                                                         req.size, copying)>>
                                         ELSE <<>>]
             /\ last_ret' = [op |-> "handle_api_model_post", ret |-> success]
    /\ uploads' = uploads + 1
    /\ steps < MaxSwapSteps
    /\ steps' = steps + 1
    /\ UNCHANGED <<now, needsVars, buttonVars, care, learn_prefs, webVars,
                   g_storage_initialized, embedded, g_model_callback, boots,
                   g_weights, g_custom_model_loaded, g_use_fallback_brain,
                   g_brain_output, g_current_features, ref_call, learnVars,
                   logVars, g_last_button_ms, g_last_tick_ms, g_last_save_ms,
                   g_both_buttons_start_ms, g_pet_stats, was_starving, pet_prefs,
                   iter, watch, scan, seen, hist,
                   uploadVars>>

\* brain_load_weights, lines 516-539: one of the four copy loops
LoadStep ==
    /\ pc = "load"
    /\ load_pos < Len(LoadArrays)
    /\ g_weights' = [g_weights EXCEPT
                       ![LoadArrays[load_pos + 1]] =
                          LoadedWeights(load_data)[LoadArrays[load_pos + 1]]]
    /\ load_pos' = load_pos + 1
    /\ steps < MaxSwapSteps
    /\ steps' = steps + 1
    /\ UNCHANGED <<now, needsVars, buttonVars, care, learn_prefs, webVars,
                   bootVars, g_custom_model_loaded, g_model_version,
                   g_use_fallback_brain, g_brain_output, g_current_features,
                   ref_call, learnVars, logVars, last_ret, g_last_button_ms,
                   g_last_tick_ms, g_last_save_ms, g_both_buttons_start_ms,
                   g_pet_stats, was_starving, pet_prefs, iter, watch, scan,
                   load_data, seen, w_before, hist,
                   uploadVars>>

\* brain_load_weights, lines 541-542, and on_model_uploaded, lines 155-157
LoadEnd ==
    /\ pc = "load"
    /\ load_pos = Len(LoadArrays)
    /\ g_custom_model_loaded' = TRUE
    /\ g_use_fallback_brain' = FALSE
    /\ load_pos' = LoadIdle
    /\ pc' = "save"
    /\ steps < MaxSwapSteps
    /\ steps' = steps + 1
    /\ UNCHANGED <<now, needsVars, buttonVars, care, learn_prefs, webVars,
                   g_storage_initialized, model_prefs, model_file, embedded,
                   g_model_callback, uploads, boots, model_io, g_weights,
                   g_model_version, g_brain_output, g_current_features,
                   ref_call, learnVars, logVars, last_ret, g_last_button_ms,
                   g_last_tick_ms, g_last_save_ms, g_both_buttons_start_ms,
                   g_pet_stats, was_starving, pet_prefs, iter, watch, scan,
                   load_data, seen, w_before, hist,
                   uploadVars>>

\* setup() done: the fallback brain, or the stored model "A" restored
InitSwap ==
    /\ now = SetupMs
    /\ steps = 0
    /\ \/ BootBrain
       \/ /\ g_weights = LoadedWeights("A")
          /\ g_custom_model_loaded = TRUE
          /\ g_model_version = VersionOf("A")
          /\ g_use_fallback_brain = FALSE
          /\ g_brain_output = BootOutput
          /\ g_current_features = ZeroFeatures
          /\ ref_call = NoCall
    /\ BootLearn
    /\ BootLogger
    /\ last_ret = NoRet
    /\ BootWeb
    /\ g_last_button_ms = SetupMs
    /\ g_last_tick_ms = SetupMs
    /\ g_last_save_ms = SetupMs
    /\ g_both_buttons_start_ms = 0
    /\ g_pet_stats = FirstPetStats
    /\ was_starving = FALSE
    /\ pet_prefs = NoPetPrefs
    /\ iter = NoIter
    /\ watch = NoWatch
    /\ scan = ScanIdle
    /\ load_pos = LoadIdle
    /\ load_data = "A"
    /\ seen = [read |-> FALSE, weights |-> g_weights]
    /\ w_before = g_weights
    /\ hist = [b \in Buttons |-> <<>>]
    /\ BootUpload
    /\ care = NoCare
    /\ learn_prefs = NoLearnPrefs
    /\ pc = "loop"
    /\ g_storage_initialized = TRUE
    /\ model_prefs = NoModelPrefs
    /\ model_file = NoModelFile
    /\ embedded = NoEmbedded
    /\ g_model_callback = TRUE
    /\ uploads = 0
    /\ boots = 0
    /\ model_io = NoModelIo
    /\ BootButtons
    /\ g_pet_state = core_state_init
    /\ g_interaction_stats = core_state_stats_init
    /\ last_action = ACTION_IDLE

NextSwap ==
    \/ SwapPoll
    \/ SwapTick
    \/ SwapNoRequest
    \/ SwapUpload
    \/ LoadStep
    \/ LoadEnd
    \/ SwapSave

SpecSwap == InitSwap /\ [][NextSwap]_vars

\* C33: the decision path never observes a partially replaced weight set:
\* each brain_infer evaluation reads either the complete weight set from
\* before a brain_load_weights call or the complete weight set written by
\* it, never a mixture.
C33_NoPartialWeights ==
    [][(g_last_tick_ms' # g_last_tick_ms /\ ~g_use_fallback_brain) =>
         /\ seen' = [read |-> TRUE, weights |-> g_weights]
         /\ g_weights \in {w_before, LoadedWeights(load_data)}
         /\ load_pos = LoadIdle]_vars

\* brain_infer ran on the complete weights of file "B", which a
\* brain_load_weights call had put in the place of those of file "A"
C33_Witness ==
    /\ seen.read
    /\ seen.weights = LoadedWeights("B")
    /\ w_before = LoadedWeights("A")
    /\ last_ret.op = "brain_infer"

(***************************************************************************)
(* The current decision: who writes it                                     *)
(***************************************************************************)
\* the decision a journal entry carries
C34_Journaled(entry) ==
    [action_id |-> entry.model_action, valence |-> entry.model_valence,
     arousal |-> entry.model_arousal]

\* C34: the current decision is written only by the simulation tick:
\* gesture handling (feed/pet effects, reward recording, journal append),
\* model upload and the periodic save all leave its action, valence and
\* arousal unchanged, so the decision journaled with a gesture is the one
\* produced by the most recent tick.
C34_DecisionWrittenByTick ==
    [][/\ g_last_tick_ms' = g_last_tick_ms => g_brain_output' = g_brain_output
       /\ (pc = "loop" /\ emitted' # <<>>) =>
            /\ g_count' >= 1
            /\ C34_Journaled(g_log_buffer'[g_head]) = g_brain_output
            /\ g_brain_output' = g_brain_output]_vars

\* a feed gesture was journaled with the decision of the tick before it,
\* after a model upload and a periodic save had run in between
C34_Witness ==
    /\ pc = "tick"
    /\ last_ret.op = "on_button_event"
    /\ g_last_tick_ms > SetupMs
    /\ g_last_save_ms > SetupMs
    /\ uploads >= 1
    /\ g_brain_output # BootOutput
    /\ g_count >= 1
    /\ C34_Journaled(g_log_buffer[(g_head + LOG_MAX_EVENTS - 1) % LOG_MAX_EVENTS])
         = g_brain_output

(***************************************************************************)
(* InteractionStats: the 5-minute counters                                 *)
(***************************************************************************)
\* the window of feed_count_5m and pet_count_5m, in ms
Window5m == 300000

\* journal entries of feed gestures written in the last 5 minutes
C35_RecentFeeds ==
    {i \in 0 .. g_count - 1 :
       /\ g_log_buffer[i].input_event = INPUT_FEED_SHORT
       /\ now - g_log_buffer[i].timestamp * 1000 < Window5m}

\* C35: after any sequence of gestures and ticks, the 5-minute feed counter
\* of InteractionStats equals the number of feed interactions of the
\* preceding 5 minutes (here: since setup(), less than 5 minutes ago, with
\* the journal not yet wrapped).
C35_FeedCounterCountsFeeds ==
    (g_count < LOG_MAX_EVENTS /\ g_head = g_count) =>
        g_interaction_stats.feed_count_5m = Cardinality(C35_RecentFeeds)

(***************************************************************************)
(* buttons_update: the two recognizers                                     *)
(***************************************************************************)
RECURSIVE Alone(_, _)
\* a recognizer on its own, given the first n levels and clock values of
\* one button: its ButtonState and the gestures it has emitted
Alone(h, n) ==
    IF n = 0 THEN [st |-> ButtonStateInit, log |-> <<>>]
    ELSE LET before == Alone(h, n - 1)
             r == ButtonStep(before.st, h[n].raw, h[n].t)
         IN  [st |-> r.st, log |-> GestureLog(before.log, r.ev, h[n].t)]

\* C36: the two buttons are recognized independently: the gestures emitted
\* for a button and its recognizer state (debounced level, timers,
\* press_count, pending flag) are those of a recognizer fed that button's
\* own raw levels and the clock alone, and the pass of the other button
\* leaves them unchanged.
C36_ButtonsIndependent ==
    [][\A b \in Buttons :
         /\ \E a \in {Alone(hist'[b], Len(hist'[b]))} :
              /\ g_state'[b] = a.st
              /\ glog'[b] = a.log
         /\ scan # b => (g_state'[b] = g_state[b] /\ glog'[b] = glog[b])]_vars

\* with both buttons gripped, the feed button's long press has been emitted
\* and handled while the pet button's pass is still to come, and the pet
\* button's recognizer holds its press untouched
C36_Witness ==
    /\ scan = BUTTON_PET
    /\ g_callback
    /\ Len(glog[BUTTON_FEED]) = 1
    /\ glog[BUTTON_FEED][1].gesture = GESTURE_LONG
    /\ g_state[BUTTON_FEED].press_count = 0
    /\ glog[BUTTON_PET] = <<>>
    /\ g_state[BUTTON_PET].current_state
    /\ g_state[BUTTON_PET].press_count = 1
    /\ Len(hist[BUTTON_FEED]) = Len(hist[BUTTON_PET]) + 1

(***************************************************************************)
(* buttons_get_event: the register of the polling mode                     *)
(***************************************************************************)
\* C38: in polling mode (no callback registered), with buttons_get_event
\* drained after every buttons_update call, every gesture emitted by
\* buttons_update is returned by buttons_get_event exactly once and none is
\* lost, also when both buttons emit a gesture in the same call.
C38_DrainReturnsEveryGesture ==
    [][(scan = BUTTON_COUNT /\ scan' = ScanIdle /\ ~g_callback) =>
          last_ret'.ret = emitted]_vars

(***************************************************************************)
(* handle_api_model_post: the upload callbacks                             *)
(***************************************************************************)
MaxCallbacks == 6

\* the largest value String::toInt() returns
LongMax == 2147483647

\* X-Model-Size as g_upload_size holds it: 32768 without the header
DeclaredSizes ==
    {0, 3, expected_size, expected_size + 3, expected_size + 4, 32768, LongMax}

\* X-Model-CRC: the checksum of the file, or of the file less its last byte
HeaderCrcs(data) ==
    {storage_calc_crc32(data, expected_size + 4),
     storage_calc_crc32(data, expected_size + 3)}

\* upload.currentSize of the next UPLOAD_FILE_WRITE: the file arrives as
\* the weights after the version word less 4 bytes, then 3 bytes, then 1
CurrentSize(sent) ==
    IF sent = 0 THEN expected_size ELSE IF sent = expected_size THEN 3 ELSE 1

\* malloc(size) returns a buffer (TRUE) or NULL (FALSE); no heap of the
\* device holds 2 GB
MallocResults(size) == IF size = LongMax THEN {FALSE} ELSE BOOLEAN

\* mutant: the chunk is copied without the size check
Fits_unchecked(currentSize) == ~g_upload_buffer.null

\* "g_upload_buffer && (g_upload_received + upload.currentSize) <= g_upload_size";
\* the sum stays far below 2^32: with a buffer, g_upload_received is at most
\* the size malloc granted
Fits(currentSize) ==
    /\ ~g_upload_buffer.null
    /\ g_upload_received + currentSize <= g_upload_size

\* what the upload actions leave alone besides the statics of the upload
uploadFrame ==
    <<now, needsVars, buttonVars, g_brain_output, g_current_features, ref_call,
      learnVars, logVars, care, learn_prefs, webVars, pc, g_storage_initialized,
      embedded, g_model_callback, boots, g_last_button_ms, g_last_tick_ms,
      g_last_save_ms, g_both_buttons_start_ms, g_pet_stats, was_starving,
      pet_prefs, iter, watch, scan, load_pos, load_data, seen, w_before, hist>>

\* UPLOAD_FILE_START, lines 279-303
UploadStart ==
    /\ steps < MaxCallbacks
    /\ \E declared \in DeclaredSizes, data \in ModelFiles :
       \E crc \in HeaderCrcs(data), ok \in MallocResults(declared) :
         /\ g_uploading' = ok
         /\ g_upload_received' = 0
         /\ g_upload_size' = declared
         /\ g_upload_buffer' = IF ok THEN [null |-> FALSE, cap |-> declared,
                                           filled |-> 0, intact |-> TRUE]
                               ELSE NullBuffer
         /\ g_upload_meta' = IF ok THEN [version |-> VersionOf(data),
                                         size |-> g_upload_meta.size,
                                         crc32 |-> crc]
                             ELSE g_upload_meta
         /\ upload_io' = [data |-> data, sent |-> 0, handed |-> <<>>]
         /\ last_ret' = [op |-> "UPLOAD_FILE_START", ret |-> ok]
    /\ steps' = steps + 1
    /\ UNCHANGED <<uploadFrame, g_weights, g_custom_model_loaded, g_model_version,
                   g_use_fallback_brain, model_prefs, model_file, uploads,
                   model_io>>

\* UPLOAD_FILE_WRITE, lines 305-309
UploadWrite ==
    /\ steps < MaxCallbacks
    /\ upload_io.sent < expected_size + 4
    /\ \E currentSize \in {CurrentSize(upload_io.sent)} :
       \E fits \in {Fits(currentSize)} :
         /\ g_upload_buffer' =
              IF fits
                THEN [g_upload_buffer EXCEPT
                        !.filled = IF g_upload_received + currentSize > @
                                     THEN g_upload_received + currentSize ELSE @,
                        !.intact = @ /\ g_upload_received = upload_io.sent]
                ELSE g_upload_buffer
         /\ g_upload_received' = IF fits THEN g_upload_received + currentSize
                                 ELSE g_upload_received
         /\ upload_io' = [upload_io EXCEPT !.sent = @ + currentSize]
         /\ last_ret' = [op |-> "UPLOAD_FILE_WRITE", ret |-> fits]
    /\ steps' = steps + 1
    /\ UNCHANGED <<uploadFrame, g_uploading, g_upload_size, g_upload_meta,
                   g_weights, g_custom_model_loaded, g_model_version,
                   g_use_fallback_brain, model_prefs, model_file, uploads,
                   model_io>>

\* storage_save_model(g_upload_buffer, g_upload_received, &g_upload_meta),
\* not called without a buffer:
\* a buffer whose chunks are not where the file has them fails the checksum
UploadSave(outcome) ==
    IF g_upload_buffer.null
      THEN [ret |-> FALSE, checked |-> FALSE, match |-> FALSE,
            prefs |-> model_prefs, file |-> model_file]
    ELSE IF g_upload_buffer.intact
      THEN storage_save_model(g_storage_initialized, model_prefs, model_file,
                              upload_io.data, g_upload_received,
                              [g_upload_meta EXCEPT !.size = g_upload_received],
                              outcome)
      ELSE [ret |-> FALSE, checked |-> g_storage_initialized, match |-> FALSE,
            prefs |-> model_prefs, file |-> model_file]

\* the calls UPLOAD_FILE_END makes with a length, in order
HandedOn(success) ==
    <<[to |-> "storage_save_model", size |-> g_upload_received]>>
    \o (IF g_model_callback
          THEN <<[to |-> "on_model_uploaded", size |-> g_upload_received]>>
          ELSE <<>>)
    \o (IF g_model_callback /\ success
          THEN <<[to |-> "brain_load_weights", size |-> g_upload_received]>>
          ELSE <<>>)

\* UPLOAD_FILE_END, lines 311-334, with on_model_uploaded
UploadEnd ==
    /\ steps < MaxCallbacks
    /\ \E outcome \in WriteOutcomes :
       \E sv \in {UploadSave(outcome)} :
       \E have \in {~g_upload_buffer.null} :
       \E called \in {have /\ sv.ret /\ g_model_callback} :
       \E r \in {IF called
                   THEN brain_load_weights(g_weights, g_custom_model_loaded,
                                           g_model_version, upload_io.data,
                                           g_upload_received)
                   ELSE [ret |-> FALSE, weights |-> g_weights,
                         loaded |-> g_custom_model_loaded,
                         version |-> g_model_version]} :
         /\ g_upload_meta' = [g_upload_meta EXCEPT !.size = g_upload_received]
         /\ model_prefs' = IF have THEN sv.prefs ELSE model_prefs
         /\ model_file' = IF have THEN sv.file ELSE model_file
         /\ g_weights' = r.weights
         /\ g_custom_model_loaded' = r.loaded
         /\ g_model_version' = r.version
         /\ g_use_fallback_brain' = IF r.ret THEN FALSE ELSE g_use_fallback_brain
         /\ upload_io' = [upload_io EXCEPT
                            !.handed = IF have THEN HandedOn(sv.ret) ELSE <<>>]
         /\ model_io' = IF have
                          THEN [path |-> "upload", data |-> upload_io.data,
                                size |-> g_upload_received,
                                checked |-> sv.checked, match |-> sv.match,
                                result |-> sv.ret,
                                loads |-> IF called
                                            THEN <<LoadCall("upload", upload_io.data,
                                                            g_upload_received,
                                                            r.ret)>>
                                            ELSE <<>>]
                          ELSE model_io
         /\ last_ret' = [op |-> "UPLOAD_FILE_END", ret |-> have /\ sv.ret]
    /\ g_upload_buffer' = NullBuffer
    /\ g_uploading' = FALSE
    /\ uploads' = uploads + 1
    /\ steps' = steps + 1
    /\ UNCHANGED <<uploadFrame, g_upload_size, g_upload_received>>

InitUpload ==
    /\ now = SetupMs
    /\ steps = 0
    /\ BootNeeds
    /\ BootButtons
    /\ BootEngine
    /\ BootWeb
    /\ BootLoop
    /\ care = NoCare
    /\ learn_prefs = NoLearnPrefs
    /\ pc = "web"
    /\ g_storage_initialized = TRUE
    /\ model_prefs = NoModelPrefs
    /\ model_file = NoModelFile
    /\ embedded = NoEmbedded
    /\ g_model_callback \in BOOLEAN
    /\ uploads = 0
    /\ boots = 0
    /\ model_io = NoModelIo

NextUpload ==
    \/ UploadStart
    \/ UploadWrite
    \/ UploadEnd

SpecUpload == InitUpload /\ [][NextUpload]_vars

\* C37 as stated: during a model upload, for any sequence of start/write/end
\* callbacks and any declared size, the number of bytes copied into the
\* upload buffer never exceeds the size the buffer was allocated with, and
\* the length handed to the checksum verification and to the loader is the
\* number of bytes actually received, never the declared size.
C37_HandedLengthIsReceived ==
    [][/\ g_upload_buffer'.filled <= g_upload_buffer'.cap
       /\ last_ret'.op = "UPLOAD_FILE_END" =>
            \A i \in DOMAIN upload_io'.handed :
               upload_io'.handed[i].size = upload_io.sent]_vars

\* C37, amended: the number of bytes copied into the upload buffer never
\* exceeds the size the buffer was allocated with, and the length handed to
\* the checksum verification and to the loader is the number of bytes
\* copied into the buffer (a chunk that does not fit is dropped whole and
\* not counted), which is at most the number received and at most the
\* declared size.
C37_HandedLengthIsCopied ==
    [][/\ g_upload_buffer'.filled <= g_upload_buffer'.cap
       /\ last_ret'.op = "UPLOAD_FILE_END" =>
            \A i \in DOMAIN upload_io'.handed :
               /\ upload_io'.handed[i].size = g_upload_buffer.filled
               /\ upload_io'.handed[i].size <= upload_io.sent
               /\ upload_io'.handed[i].size <= g_upload_size]_vars

\* a whole file uploaded without the size header: the checksum, the callback
\* and the loader were handed the length of the file, not the 32768 declared
C37_Witness ==
    /\ last_ret = [op |-> "UPLOAD_FILE_END", ret |-> TRUE]
    /\ g_upload_size = 32768
    /\ upload_io.sent = expected_size + 4
    /\ Len(upload_io.handed) = 3
    /\ \A i \in 1 .. 3 : upload_io.handed[i].size = expected_size + 4
    /\ upload_io.handed[3].to = "brain_load_weights"
    /\ g_custom_model_loaded

(***************************************************************************)
(* The learner's queue at deep sleep                                       *)
(***************************************************************************)
\* runs long enough for a gesture followed by the 3-second hold
MaxSleepIterations == 7
MaxSleepChanges == 3

\* a slow iteration, a long press, the hold
SleepGaps == {50, 600, SLEEP_HOLD_TIME_MS}

\* loop()
SleepLoop == LoopWith(SleepGaps, {0}, MaxSleepIterations, MaxSleepChanges)

NextSleep == SleepLoop

SpecSleep == InitLoop /\ [][NextSleep]_vars

\* C39: every experience accepted into the learner's queue is applied to
\* the bias vector by a later online_learn_apply and then persisted: no
\* accepted experience is discarded without having been applied, also when
\* the device enters deep sleep before the next 60-second save boundary
\* (deep sleep ends in a reset, and online_learn_init empties the queue).
C39_NoExperienceDiscarded ==
    [][pc' = "sleep" => g_learn_buffer' = <<>>]_vars

(***************************************************************************)
(* ButtonState between buttons_update calls                                *)
(***************************************************************************)
\* C40: between buttons_update calls, for each button: press_count is 0, 1
\* or 2; press_count = 2 only while the button is debounced-pressed;
\* pending_event = true implies press_count >= 1 and the button is not
\* pressed or is in its second press; and a single buttons_update call
\* emits at most one gesture per button.
C40_PressCount ==
    \A b \in Buttons :
      /\ g_state[b].press_count \in 0 .. 2
      /\ g_state[b].press_count = 2 => g_state[b].current_state
      /\ g_state[b].pending_event =>
           /\ g_state[b].press_count >= 1
           /\ ~g_state[b].current_state \/ g_state[b].press_count = 2
      /\ Cardinality({i \in 1 .. Len(emitted) : emitted[i].button = b}) <= 1

\* the feed button in its second press with the first still pending
C40_Witness ==
    /\ g_state[BUTTON_FEED].press_count = 2
    /\ g_state[BUTTON_FEED].pending_event
    /\ g_state[BUTTON_FEED].current_state
    /\ Len(plog[BUTTON_FEED]) = 2
    /\ emitted = <<>>

====
